---------------------------- MODULE Spec2Model ----------------------------
(***************************************************************************)
(* The MCP client connection manager of src-tauri/src/mcp: the registry    *)
(* McpClientManager.clients, the lifecycle operations on it, the six       *)
(* forwarding operations, and the tauri command layer that runs every      *)
(* operation under the single tokio Mutex of AppState.                     *)
(*                                                                         *)
(* Strings built with format! are sequences of fragments; the Chinese      *)
(* literals of client.rs are written as ASCII fragments between brackets.  *)
(* Option<T> is a sequence of length 0 (None) or 1 (Some(x)).              *)
(* Result<T, E> is a record [ok, val] or [ok, err].                        *)
(***************************************************************************)
EXTENDS Integers, Sequences, FiniteSets, TLC

(* ------------------------------ bounds -------------------------------- *)

\* the clock Utc::now() reads takes the values 0..MaxTime
MaxTime == 1

\* transport sessions the SDK creates in one run
MaxSessions == 2

(* ------------------------------ values -------------------------------- *)

ClientIds == {"a", "b"}

Tasks == {"t1", "t2"}

NoTask == "none"

None == <<>>

Some(x) == <<x>>

Ok(v) == [ok |-> TRUE, val |-> v]

Err(e) == [ok |-> FALSE, err |-> e]

\* types.rs ClientStatus; Error carries its message
Disconnected == <<"Disconnected">>

Connecting == <<"Connecting">>

Connected == <<"Connected">>

ErrorStatus(msg) == <<"Error">> \o msg

\* what initialize() of the SDK answers on a session: the InitializeResult
\* of the server behind it, every server with a descriptor of its own
InitializeResults(session) ==
    { [server_info |-> [name |-> <<"server", session>>, version |-> "1.0"],
       capabilities |-> [isObject |-> TRUE, map |-> [tools |-> <<"server", session>>]]] }

\* client.rs 307-318: ServerInfo built from the InitializeResult; the
\* capabilities are serialised and kept when they are a JSON object,
\* replaced by an empty map otherwise
ServerInfoOf(info) ==
    [name |-> info.server_info.name,
     version |-> info.server_info.version,
     capabilities |-> IF info.capabilities.isObject THEN info.capabilities.map ELSE <<>>]

(* --------------------------- the registry ------------------------------ *)

VARIABLES
    clients,     \* McpClientManager.clients: HashMap<String, ClientInstance>
    now,         \* the clock read by Utc::now()
    nextSession, \* transport sessions created so far by transport.start()
    lock,        \* holder of AppState.mcp_client_manager (tokio Mutex), or NoTask
    pc,          \* position of each command task
    req,         \* the request each task was invoked with
    res,         \* the value the command is returning
    loc,         \* the locals of the running handler (client, arguments)
    pre,         \* history: the registry when the task took the lock
    sdk          \* history: the SDK calls the running command has made

vars == <<clients, now, nextSession, lock, pc, req, res, loc, pre, sdk>>

EmptyRegistry == <<>>

NoReq == [cmd |-> "none"]

NoRes == [ok |-> FALSE, err |-> <<"no result">>]

\* client.rs 64: self.clients.contains_key(&request.id)
ContainsKey(cl, id) == id \in DOMAIN cl

\* client.rs 341: self.clients.insert(id, instance)
Insert(cl, id, inst) == [k \in DOMAIN cl \cup {id} |-> IF k = id THEN inst ELSE cl[k]]

\* client.rs 391: self.clients.remove(client_id)
Remove(cl, id) == [k \in DOMAIN cl \ {id} |-> cl[k]]

NotFoundMsg(id) == <<"Client with ID '", id, "' not found">>

NotConnectedMsg(id) == <<"Client with ID '", id, "' is not connected">>

AlreadyExistsMsg(id) == <<"Client with ID '", id, "' already exists">>

\* types.rs 48-56 as filled in client.rs 423-432 and 448-457
StatusResponse(inst) ==
    [id |-> inst.id,
     status |-> inst.status,
     error |-> IF inst.status[1] = "Error" THEN Some(Tail(inst.status)) ELSE None,
     connected_at |-> inst.connected_at,
     server_info |-> inst.server_info]

\* client.rs 367: instance.status = ClientStatus::Disconnected
disconnect_client_status(cl, id) == [cl EXCEPT ![id].status = Disconnected]

\* client.rs 495: instance.status = ClientStatus::Connecting
repair_client_connecting(cl, id) == [cl EXCEPT ![id].status = Connecting]

\* disconnect_client without line 368: the timestamp is left in place
disconnect_client_keeps_timestamp(cl, id) ==
    IF ~ContainsKey(cl, id)
    THEN [clients |-> cl, result |-> Err(NotFoundMsg(id))]
    ELSE LET instance == [cl[id] EXCEPT !.status = Disconnected]
         IN [clients |-> [cl EXCEPT ![id] = instance],
             result |-> Ok([id |-> id,
                            status |-> Disconnected,
                            error |-> None,
                            connected_at |-> None,
                            server_info |-> instance.server_info])]

\* disconnect_client that forgets what the server said of itself
disconnect_client_drops_descriptor(cl, id) ==
    IF ~ContainsKey(cl, id)
    THEN [clients |-> cl, result |-> Err(NotFoundMsg(id))]
    ELSE LET instance == [cl[id] EXCEPT !.status = Disconnected, !.connected_at = None,
                                        !.server_info = None]
         IN [clients |-> [cl EXCEPT ![id] = instance],
             result |-> Ok(StatusResponse(instance))]

\* client.rs 354-378
disconnect_client(cl, id) ==
    IF ~ContainsKey(cl, id)
    THEN [clients |-> cl, result |-> Err(NotFoundMsg(id))]
    ELSE LET instance == [cl[id] EXCEPT !.status = Disconnected, !.connected_at = None]
         IN [clients |-> [cl EXCEPT ![id] = instance],
             result |-> Ok([id |-> id,
                            status |-> Disconnected,
                            error |-> None,
                            connected_at |-> None,
                            server_info |-> instance.server_info])]

\* delete_client without the check of lines 384-387: remove() of an absent
\* key is a successful no-op
delete_client_silent(cl, id) ==
    [clients |-> Remove(cl, id), result |-> Ok(<<>>)]

\* delete_client that drops the whole map instead of one key
delete_client_clears(cl, id) ==
    IF ~ContainsKey(cl, id)
    THEN [clients |-> cl, result |-> Err(NotFoundMsg(id))]
    ELSE [clients |-> EmptyRegistry, result |-> Ok(<<>>)]

\* delete_client that refuses an instance still connected
delete_client_requires_disconnect(cl, id) ==
    IF ~ContainsKey(cl, id)
    THEN [clients |-> cl, result |-> Err(NotFoundMsg(id))]
    ELSE IF cl[id].status = Connected
    THEN [clients |-> cl, result |-> Err(<<"Client is still connected: ", id>>)]
    ELSE [clients |-> Remove(cl, id), result |-> Ok(<<>>)]

\* client.rs 381-393
delete_client(cl, id) ==
    IF ~ContainsKey(cl, id)
    THEN [clients |-> cl, result |-> Err(NotFoundMsg(id))]
    ELSE [clients |-> Remove(cl, id), result |-> Ok(<<>>)]

\* get_client_status that answers for an unknown identifier with the status
\* of a client that is not connected
get_client_status_default(cl, id) ==
    IF ~ContainsKey(cl, id)
    THEN Ok([id |-> id, status |-> Disconnected, error |-> None,
             connected_at |-> None, server_info |-> None])
    ELSE Ok(StatusResponse(cl[id]))

\* client.rs 396-439
get_client_status(cl, id) ==
    IF ~ContainsKey(cl, id)
    THEN Err(NotFoundMsg(id))
    ELSE Ok(StatusResponse(cl[id]))

\* get_all_client_statuses that reports the connected instances only
get_all_client_statuses_connected_only(cl, order) ==
    LET live == SelectSeq(order, LAMBDA k : cl[k].status = Connected)
    IN [i \in 1..Len(live) |-> StatusResponse(cl[live[i]])]

\* client.rs 442-462: one response per value of the map, in the order
\* `order` in which HashMap::values() happens to iterate
get_all_client_statuses(cl, order) ==
    [i \in 1..Len(order) |-> StatusResponse(cl[order[i]])]

\* the iteration orders of a map with these keys
Orders(keys) ==
    { s \in [1..Cardinality(keys) -> keys] : \A i, j \in DOMAIN s : i # j => s[i] # s[j] }

\* repair_client without the early return of lines 479-489: a connected
\* instance is repaired like any other and gets a new timestamp
repair_client_always(cl, id, t) ==
    IF ~ContainsKey(cl, id)
    THEN [clients |-> cl, result |-> Err(NotFoundMsg(id))]
    ELSE LET instance == [cl[id] EXCEPT !.status = Connected, !.connected_at = Some(t)]
         IN [clients |-> [cl EXCEPT ![id] = instance],
             result |-> Ok(StatusResponse(instance))]

\* repair_client without lines 504 and 510: the status becomes Connected
\* and the timestamp stays as disconnect left it
repair_client_status_only(cl, id, t) ==
    IF ~ContainsKey(cl, id)
    THEN [clients |-> cl, result |-> Err(NotFoundMsg(id))]
    ELSE LET instance == [cl[id] EXCEPT !.status = Connected]
         IN [clients |-> [cl EXCEPT ![id] = instance],
             result |-> Ok(StatusResponse(instance))]

\* repair_client that reconnects with a transport of its own making
repair_client_restarts(cl, id, t) ==
    IF ~ContainsKey(cl, id)
    THEN [clients |-> cl, result |-> Err(NotFoundMsg(id))]
    ELSE IF cl[id].status = Connected
    THEN [clients |-> cl, result |-> Ok(StatusResponse(cl[id]))]
    ELSE LET instance == [cl[id] EXCEPT !.status = Connected, !.connected_at = Some(t),
                                        !.client.session = @ + 1]
         IN [clients |-> [cl EXCEPT ![id] = instance],
             result |-> Ok(StatusResponse(instance))]

\* client.rs 465-532
repair_client(cl, id, t) ==
    IF ~ContainsKey(cl, id)
    THEN [clients |-> cl, result |-> Err(NotFoundMsg(id))]
    ELSE IF cl[id].status = Connected
    THEN [clients |-> cl,
          result |-> Ok([id |-> cl[id].id,
                         status |-> Connected,
                         error |-> None,
                         connected_at |-> cl[id].connected_at,
                         server_info |-> cl[id].server_info])]
    ELSE LET connecting == [cl[id] EXCEPT !.status = Connecting]
             instance ==
                 IF connecting.client.kind = "sse"
                 THEN [connecting EXCEPT !.status = Connected, !.connected_at = Some(t)]
                 ELSE [connecting EXCEPT !.status = Connected, !.connected_at = Some(t)]
         IN [clients |-> [cl EXCEPT ![id] = instance],
             result |-> Ok([id |-> instance.id,
                            status |-> instance.status,
                            error |-> None,
                            connected_at |-> instance.connected_at,
                            server_info |-> instance.server_info])]

\* get_client without the status check of lines 543-549
get_client_any_status(cl, id) ==
    IF ~ContainsKey(cl, id)
    THEN Err(NotFoundMsg(id))
    ELSE Ok(cl[id].client)

\* client.rs 535-552
get_client(cl, id) ==
    IF ~ContainsKey(cl, id)
    THEN Err(NotFoundMsg(id))
    ELSE IF cl[id].status # Connected
    THEN Err(NotConnectedMsg(id))
    ELSE Ok(cl[id].client)

(* ------------------------- serde_json values --------------------------- *)

\* serde_json::Value.  The content of a String is its text as a sequence of
\* lexical tokens; an Object is a map from keys to values.
JNull == [t |-> "Null"]

JBool(b) == [t |-> "Bool", b |-> b]

JNum(n) == [t |-> "Number", n |-> n]

JStr(text) == [t |-> "String", s |-> text]

JArr(items) == [t |-> "Array", items |-> items]

JObj(map) == [t |-> "Object", map |-> map]

\* tokens of a text: punctuation, string literal, number literal, bare word
P(c) == [k |-> "punct", v |-> c]

S(c) == [k |-> "str", v |-> c]

N(c) == [k |-> "num", v |-> c]

W(c) == [k |-> "word", v |-> c]

ParseFail == [ok |-> FALSE, val |-> JNull, next |-> 0]

ParseOk(v, n) == [ok |-> TRUE, val |-> v, next |-> n]

IsTok(toks, i, tk) == i <= Len(toks) /\ toks[i] = tk

RECURSIVE ParseValue(_, _), ParseElements(_, _, _), ParseMembers(_, _, _)

\* one JSON value starting at token i
ParseValue(toks, i) ==
    IF i > Len(toks) THEN ParseFail
    ELSE LET tk == toks[i] IN
         CASE tk.k = "str" -> ParseOk(JStr(<<W(tk.v)>>), i + 1)
           [] tk.k = "num" -> ParseOk(JNum(tk.v), i + 1)
           [] tk.k = "word" ->
                IF tk.v = "null" THEN ParseOk(JNull, i + 1)
                ELSE IF tk.v = "true" THEN ParseOk(JBool(TRUE), i + 1)
                ELSE IF tk.v = "false" THEN ParseOk(JBool(FALSE), i + 1)
                ELSE ParseFail
           [] OTHER ->
                IF tk.v = "[" THEN
                    IF IsTok(toks, i + 1, P("]")) THEN ParseOk(JArr(<<>>), i + 2)
                    ELSE ParseElements(toks, i + 1, <<>>)
                ELSE IF tk.v = "{" THEN
                    IF IsTok(toks, i + 1, P("}")) THEN ParseOk(JObj(<<>>), i + 2)
                    ELSE ParseMembers(toks, i + 1, <<>>)
                ELSE ParseFail

\* the elements of an array after "[" or ","
ParseElements(toks, i, acc) ==
    LET e == ParseValue(toks, i) IN
    IF ~e.ok THEN ParseFail
    ELSE IF IsTok(toks, e.next, P(",")) THEN ParseElements(toks, e.next + 1, Append(acc, e.val))
    ELSE IF IsTok(toks, e.next, P("]")) THEN ParseOk(JArr(Append(acc, e.val)), e.next + 1)
    ELSE ParseFail

\* the members of an object after "{" or ","; a repeated key keeps the last value
ParseMembers(toks, i, acc) ==
    IF ~(i + 1 <= Len(toks) /\ toks[i].k = "str" /\ toks[i + 1] = P(":")) THEN ParseFail
    ELSE LET e == ParseValue(toks, i + 2)
             key == toks[i].v
             map == [k \in DOMAIN acc \cup {key} |-> IF k = key THEN e.val ELSE acc[k]]
         IN IF ~e.ok THEN ParseFail
            ELSE IF IsTok(toks, e.next, P(",")) THEN ParseMembers(toks, e.next + 1, map)
            ELSE IF IsTok(toks, e.next, P("}")) THEN ParseOk(JObj(map), e.next + 1)
            ELSE ParseFail

\* serde_json::from_str::<Value>(param_str), client.rs 667: the whole text
\* must be one value
from_str(toks) ==
    LET r == ParseValue(toks, 1) IN
    IF r.ok /\ r.next = Len(toks) + 1 THEN Ok(r.val) ELSE Err(<<"expected value">>)

\* the normalizer without the unwrapping of lines 673-682: whatever parsed
\* is forwarded whole
NormalizeArguments_no_unwrap(params) ==
    IF params.t = "String" THEN
        LET r == from_str(params.s) IN
        IF r.ok THEN r.val ELSE params
    ELSE params

\* the normalizer that looks for an envelope in every parameter value, not
\* only in a text
NormalizeArguments_unwraps_maps(params) ==
    LET r == IF params.t = "String" THEN from_str(params.s) ELSE Ok(params) IN
    IF r.ok THEN
        LET parsed == r.val IN
        IF parsed.t = "Object" THEN
            IF "name" \in DOMAIN parsed.map /\ "arguments" \in DOMAIN parsed.map THEN
                IF parsed.map["arguments"].t = "Object"
                THEN JObj(parsed.map["arguments"].map)
                ELSE parsed
            ELSE parsed
        ELSE parsed
    ELSE params

\* the normalizer that unwraps on the `arguments` key alone, whatever it
\* holds and whether or not there is a `name`
NormalizeArguments_arguments_only(params) ==
    IF params.t = "String" THEN
        LET r == from_str(params.s) IN
        IF r.ok THEN
            LET parsed == r.val IN
            IF parsed.t = "Object" THEN
                IF "arguments" \in DOMAIN parsed.map
                THEN parsed.map["arguments"]
                ELSE parsed
            ELSE parsed
        ELSE params
    ELSE params

\* client.rs 664-702: the arguments forwarded by call_tool
NormalizeArguments(params) ==
    IF params.t = "String" THEN
        LET r == from_str(params.s) IN
        IF r.ok THEN
            LET parsed == r.val IN
            IF parsed.t = "Object" THEN
                IF "name" \in DOMAIN parsed.map /\ "arguments" \in DOMAIN parsed.map THEN
                    IF parsed.map["arguments"].t = "Object"
                    THEN JObj(parsed.map["arguments"].map)
                    ELSE parsed
                ELSE parsed
            ELSE parsed
        ELSE params
    ELSE params

(* ------------------------ the SDK's failures --------------------------- *)

\* mcp_client_fishcode2025::Error as matched in client.rs 821-872; "Other"
\* is any variant the wildcard arm of line 868 receives.  The payload is
\* the Display text of what the variant carries.
McpErrors ==
    { [kind |-> "Transport", payload |-> <<"connection closed">>],
      [kind |-> "RpcError", payload |-> <<"-32601", "method not found">>],
      [kind |-> "Serialization", payload |-> <<"expected value">>],
      [kind |-> "UnexpectedResponse", payload |-> <<"no result field">>],
      [kind |-> "NotInitialized", payload |-> <<>>],
      [kind |-> "NotReady", payload |-> <<>>],
      [kind |-> "Timeout", payload |-> <<"elapsed">>],
      [kind |-> "ServerBoxError", payload |-> <<"boxed failure">>],
      [kind |-> "McpServerError", payload |-> <<"tools/call", "srvA", "root cause">>],
      [kind |-> "Other", payload |-> <<>>] }

NotReady == [kind |-> "NotReady", payload |-> <<>>]

\* the failures the servers of the command-level model answer with
RemoteErrors == { e \in McpErrors : e.kind \in {"Transport", "NotReady", "Other"} }

\* failures of transport.start(), client.rs 93-101 and 243-251
StartErrors == { [kind |-> "TransportStart", payload |-> <<"cannot start">>] }

\* e.to_string(): the Display text the SDK gives a failure
to_string(e) == <<"Display(", e.kind, ")">> \o e.payload

\* the table of call_tool without the arm of line 850: a boxed server
\* failure falls to the wildcard arm
error_message_without_box_arm(e) ==
    CASE e.kind = "Transport" -> <<"[transport error]: ">> \o e.payload
      [] e.kind = "RpcError" ->
            <<"[RPC error]: [code]=", e.payload[1], ", [message]=", e.payload[2]>>
      [] e.kind = "Serialization" -> <<"[serialization error]: ">> \o e.payload
      [] e.kind = "UnexpectedResponse" -> <<"[unexpected response]: ">> \o e.payload
      [] e.kind = "NotInitialized" -> <<"[client not initialized]">>
      [] e.kind = "NotReady" -> <<"[service not ready or timed out]">>
      [] e.kind = "Timeout" -> <<"[request timed out]">>
      [] e.kind = "McpServerError" ->
            <<"[MCP server error]: [method]=", e.payload[1], ", [server]=", e.payload[2],
              ", [source]=", e.payload[3]>>
      [] OTHER -> <<"[unknown error]: ">> \o to_string(e)

\* client.rs 821-872: the message call_tool renders for a failure
\*   [transport error] 824, [RPC error: code=] [, message=] 828,
\*   [serialization error] 832, [unexpected response] 836,
\*   [client not initialized] 840, [service not ready or timed out] 844,
\*   [request timed out] 848, [server error] 852,
\*   [MCP server error: method=] [, server=] [, source=] 864-865,
\*   [unknown error] 870
error_message(e) ==
    CASE e.kind = "Transport" -> <<"[transport error]: ">> \o e.payload
      [] e.kind = "RpcError" ->
            <<"[RPC error]: [code]=", e.payload[1], ", [message]=", e.payload[2]>>
      [] e.kind = "Serialization" -> <<"[serialization error]: ">> \o e.payload
      [] e.kind = "UnexpectedResponse" -> <<"[unexpected response]: ">> \o e.payload
      [] e.kind = "NotInitialized" -> <<"[client not initialized]">>
      [] e.kind = "NotReady" -> <<"[service not ready or timed out]">>
      [] e.kind = "Timeout" -> <<"[request timed out]">>
      [] e.kind = "ServerBoxError" -> <<"[server error]: ">> \o e.payload
      [] e.kind = "McpServerError" ->
            <<"[MCP server error]: [method]=", e.payload[1], ", [server]=", e.payload[2],
              ", [source]=", e.payload[3]>>
      [] OTHER -> <<"[unknown error]: ">> \o to_string(e)

\* types.rs 94-100 McpResponse as built on the success paths
SuccessResponse(data) == [success |-> TRUE, data |-> Some(data), error |-> None]

\* a failure envelope that also carries a (null) payload
FailureResponseWithData(msg) == [success |-> FALSE, data |-> Some(JNull), error |-> Some(msg)]

\* McpResponse as built on the failure paths
FailureResponse(msg) == [success |-> FALSE, data |-> None, error |-> Some(msg)]

\* client.rs 643-652: the envelope for an empty tool name
EmptyToolNameMsg == <<"[tool name must not be empty]">>

\* client.rs 634: the prefix call_tool puts before get_client's failure
GetClientFailedPrefix == <<"[failed to get client instance]: ">>

(* ---------------------- what the servers can answer -------------------- *)

\* serde_json::to_value(x): x serialises to its JSON form unless its
\* Serialize implementation fails
to_value(x) == IF x.serializable THEN Ok(x.json) ELSE Err(<<"cannot serialize">>)

\* results of the remote methods, by method
RemoteResults(method) ==
    CASE method = "list_tools" ->
            { <<>>, <<[name |-> "echo", description |-> "echoes", input_schema |-> JObj(<<>>)]>> }
      [] method = "list_resources" ->
            { <<[uri |-> "res://x", description |-> None, mime_type |-> "text/plain"]>>,
              <<[uri |-> "res://y", description |-> Some("a file"), mime_type |-> "text/plain"]>> }
      [] method = "list_prompts" ->
            { <<[name |-> "greet", description |-> None,
                 arguments |-> [serializable |-> TRUE, json |-> JArr(<<>>)]]>> }
      [] OTHER ->
            { [serializable |-> TRUE, json |-> JObj([content |-> JStr(<<W("done")>>)])],
              [serializable |-> FALSE, json |-> JNull] }

\* client.rs 578-587, 914-922, 1004-1015, 780-797, 965, 1067: the data of
\* the success envelope
ResponseData(method, r) ==
    CASE method = "list_tools" ->
            [i \in 1..Len(r) |-> [name |-> r[i].name,
                                  description |-> r[i].description,
                                  parameters_schema |-> Some(r[i].input_schema),
                                  result_schema |-> None]]
      [] method = "list_resources" ->
            [i \in 1..Len(r) |-> [uri |-> r[i].uri,
                                  description |-> IF r[i].description = None THEN ""
                                                  ELSE r[i].description[1],
                                  content_type |-> r[i].mime_type]]
      [] method = "list_prompts" ->
            [i \in 1..Len(r) |-> [name |-> r[i].name,
                                  description |-> IF r[i].description = None THEN ""
                                                  ELSE r[i].description[1],
                                  parameters_schema |->
                                      Some(IF to_value(r[i].arguments).ok
                                           THEN to_value(r[i].arguments).val ELSE JNull)]]
      [] OTHER -> IF to_value(r).ok THEN to_value(r).val ELSE JNull

\* client.rs 595-603, 930-938, 969-976, 1023-1030, 1071-1078: the failure
\* envelope of the five operations that render with to_string
ForwardFailure(e) == FailureResponse(to_string(e))

\* client.rs 808-879: the failure envelope of call_tool
CallToolFailure(e) == FailureResponse(error_message(e))

(* ----------------------------- requests -------------------------------- *)

ForwardCmds == {"list_tools", "list_resources", "read_resource", "list_prompts", "get_prompt"}

\* the parameters call_tool is invoked with in the command-level model: a
\* map, and a text holding an invoke envelope
EnvelopeText ==
    <<P("{"), S("name"), P(":"), S("echo"), P(","), S("arguments"), P(":"),
      P("{"), S("a"), P(":"), N("1"), P("}"), P("}")>>

CallParams == { JObj([a |-> JNum("1")]), JStr(EnvelopeText) }

\* types.rs 13-28 InitializeClientRequest
InitializeRequests ==
    { [cmd |-> "initialize_client", id |-> i, transport_type |-> k,
       sse_url |-> tgt[1], command |-> tgt[2], args |-> None, headers |-> None,
       client_name |-> "fishmind", client_version |-> "0.1.0"] :
         i \in ClientIds, k \in {"sse", "stdio"},
         tgt \in { <<None, None>>, <<Some("http://srv/sse"), None>>, <<None, Some("npx")>> } }

\* the requests of the commands of commands.rs
Requests ==
    InitializeRequests
    \cup { [cmd |-> c, id |-> i] :
             c \in {"disconnect_client", "delete_client", "get_client_status", "repair_client"},
             i \in ClientIds }
    \cup { [cmd |-> "get_all_client_statuses"] }
    \cup { [cmd |-> c, id |-> i] : c \in ForwardCmds, i \in ClientIds }
    \cup { [cmd |-> "call_tool", id |-> i, tool_name |-> n, params |-> p] :
             i \in ClientIds, n \in {"", "echo"}, p \in CallParams }

(* -------------------- the process the backend runs in -------------------- *)

\* Command::new("where").arg(x).output() could not be run, ran without
\* finding x, or listed what it found
WhereNotRun == [spawned |-> FALSE, success |-> FALSE, stdout |-> <<>>]

WhereNotFound == [spawned |-> TRUE, success |-> FALSE, stdout |-> <<>>]

WhereFound(listing) == [spawned |-> TRUE, success |-> TRUE, stdout |-> listing]

\* the listings where prints for a name it found: a file without extension,
\* a native executable, a script, or both of them on two lines
WhereListings ==
    { <<"C:/nodejs/tool">>,
      <<"C:/nodejs/tool", ".exe">>,
      <<"C:/nodejs/tool", ".cmd">>,
      <<"C:/nodejs/tool", ".exe", "\n", "C:/nodejs/tool", ".cmd">> }

\* the names initialize_client probes for a command, client.rs 145, 170, 184
Probes(command) == {command, command \o ".cmd", command \o ".exe"}

\* what the handler can read of a process built for Windows
WindowsSystems(command) ==
    { [os |-> "windows", path |-> p,
       where_output |-> [x \in Probes(command) |->
                           IF x = command THEN bare
                           ELSE IF x = command \o ".cmd" THEN cmd ELSE exe]] :
        p \in {None, Some(<<"C:/Windows", ";", "C:/nodejs">>)},
        bare \in {WhereNotRun, WhereNotFound} \cup {WhereFound(l) : l \in WhereListings},
        cmd \in {WhereNotRun, WhereNotFound, WhereFound(<<"C:/nodejs/tool", ".cmd">>)},
        exe \in {WhereNotRun, WhereNotFound, WhereFound(<<"C:/nodejs/tool", ".exe">>)} }

\* what the handler can read of a process built for another platform, where
\* the probing is compiled out (client.rs 234)
OtherSystems(command) ==
    { [os |-> "other", path |-> p,
       where_output |-> [x \in Probes(command) |-> WhereNotRun]] :
        p \in {None, Some(<<"/usr/bin", ":", "/bin">>)} }

\* the process of the runs that do not vary it
HostSystem ==
    [os |-> "other", path |-> Some(<<"/usr/bin", ":", "/bin">>),
     where_output |-> [x \in Probes("npx") |-> WhereNotRun]]

(* -------------------- handler segments as operators -------------------- *)

\* a duplicate check that only rejects an identifier in use by a live connection
DuplicateIdWhenConnected(cl, r) == ContainsKey(cl, r.id) /\ cl[r.id].status = Connected

\* client.rs 63-76: the duplicate check of initialize_client
DuplicateId(cl, r) == ContainsKey(cl, r.id)

\* client.rs 79-112: the required URL / command of the chosen transport
MissingTarget(r) ==
    IF r.transport_type = "sse"
    THEN IF r.sse_url = None THEN Some(<<"URL is required for SSE transport">>) ELSE None
    ELSE IF r.command = None THEN Some(<<"Command is required for Stdio transport">>) ELSE None

\* request.args.unwrap_or_default() and request.headers.unwrap_or_default(),
\* client.rs 115 and 119
unwrap_or_default(opt, default) == IF opt = None THEN default ELSE opt[1]

\* client.rs 120-137 with the inherited value appended only when the caller
\* gave no PATH of its own
merge_path_prefers_caller(env_vars, path) ==
    IF path = None \/ "PATH" \in DOMAIN env_vars THEN env_vars
    ELSE Insert(env_vars, "PATH", path[1])

\* client.rs 120-137: the PATH handed to the subprocess.  path is the
\* result of std::env::var("PATH"), None for its Err; a text is the
\* sequence of its fragments and format!("{};{}", existing_path, path)
\* joins the two texts with a semicolon
merge_path(env_vars, path) ==
    IF path = None THEN env_vars
    ELSE IF "PATH" \in DOMAIN env_vars
         THEN Insert(env_vars, "PATH", env_vars["PATH"] \o <<";">> \o path[1])
         ELSE Insert(env_vars, "PATH", path[1])

\* paths.contains(".cmd"), client.rs 154: the text has the fragment
contains(text, pat) == \E i \in 1..Len(text) : text[i] = pat

\* Ok(output) if output.status.success(), client.rs 148, 172, 186, 212
where_succeeded(out) == out.spawned /\ out.success

\* the command resolution probing the .exe form before the .cmd form
resolve_command_exe_first(os, where_output, command, args) ==
    IF os # "windows" THEN [command |-> command, args |-> args]
    ELSE IF where_succeeded(where_output[command])
         THEN IF contains(where_output[command].stdout, ".cmd")
              THEN [command |-> "cmd.exe", args |-> <<"/c", command>> \o args]
              ELSE [command |-> command, args |-> args]
    ELSE IF where_succeeded(where_output[command \o ".exe"])
         THEN [command |-> command \o ".exe", args |-> args]
    ELSE IF where_succeeded(where_output[command \o ".cmd"])
         THEN [command |-> "cmd.exe", args |-> <<"/c", command \o ".cmd">> \o args]
    ELSE [command |-> command, args |-> args]

\* client.rs 139-235: (command_to_use, args_to_use).  where_output[x] is
\* the result of Command::new("where").arg(x).output(); the two arms of
\* lines 171-229 (where ran and failed, where could not be run) both go
\* on to the .exe probe
resolve_command(os, where_output, command, args) ==
    IF os # "windows" THEN [command |-> command, args |-> args]
    ELSE IF where_succeeded(where_output[command])
         THEN IF contains(where_output[command].stdout, ".cmd")
              THEN [command |-> "cmd.exe", args |-> <<"/c", command>> \o args]
              ELSE [command |-> command, args |-> args]
    ELSE IF where_succeeded(where_output[command \o ".cmd"])
         THEN [command |-> "cmd.exe", args |-> <<"/c", command \o ".cmd">> \o args]
    ELSE IF where_succeeded(where_output[command \o ".exe"])
         THEN [command |-> command \o ".exe", args |-> args]
    ELSE [command |-> command, args |-> args]

\* initialize_client starting a transport for an identifier already stored
initialize_client_entry_no_duplicate_check(cl, r, sys) ==
    IF MissingTarget(r) # None THEN Err(MissingTarget(r)[1])
    ELSE Ok([op |-> "start", kind |-> r.transport_type,
             target |-> IF r.transport_type = "sse" THEN r.sse_url[1] ELSE r.command[1]])

\* client.rs 63-243: initialize_client up to transport.start(): the early
\* failure it returns, or the transport it starts.  sys is what the handler
\* reads from the process it runs in: the platform it was built for, the
\* inherited PATH and the answers of where.  The Stdio transport is
\* StdioTransport::new(&command_to_use, args_to_use, env_vars), line 240.
initialize_client_entry(cl, r, sys) ==
    IF DuplicateId(cl, r) THEN Err(AlreadyExistsMsg(r.id))
    ELSE IF MissingTarget(r) # None THEN Err(MissingTarget(r)[1])
    ELSE IF r.transport_type = "sse"
         THEN Ok([op |-> "start", kind |-> "sse", target |-> r.sse_url[1]])
    ELSE LET args == unwrap_or_default(r.args, <<>>)
             env_vars == merge_path(unwrap_or_default(r.headers, <<>>), sys.path)
             launch == resolve_command(sys.os, sys.where_output, r.command[1], args)
         IN Ok([op |-> "start", kind |-> "stdio", target |-> r.command[1],
                command |-> launch.command, args |-> launch.args, env |-> env_vars])

\* initialize_client storing an instance without its timestamp
initialize_client_store_no_timestamp(cl, r, client, info, t) ==
    LET server_info == ServerInfoOf(info)
        instance == [id |-> r.id, client |-> client, status |-> Connected,
                     connected_at |-> None, server_info |-> Some(server_info)]
    IN [clients |-> Insert(cl, r.id, instance),
        result |-> Ok([id |-> r.id, status |-> Connected, error |-> None,
                       connected_at |-> Some(t), server_info |-> Some(server_info)])]

\* client.rs 326-350: the instance stored after a successful handshake and
\* the response returned
initialize_client_store(cl, r, client, info, t) ==
    LET server_info == ServerInfoOf(info)
        instance == [id |-> r.id, client |-> client, status |-> Connected,
                     connected_at |-> Some(t), server_info |-> Some(server_info)]
    IN [clients |-> Insert(cl, r.id, instance),
        result |-> Ok([id |-> r.id, status |-> Connected, error |-> None,
                       connected_at |-> Some(t), server_info |-> Some(server_info)])]

\* a forwarding operation sent on the transport of whichever client is
\* connected
forward_entry_any_client(cl, r) ==
    LET c == get_client(cl, r.id) IN
    IF ~c.ok THEN [ret |-> Some(Err(c.err)), call |-> None]
    ELSE LET k == CHOOSE k \in DOMAIN cl : k # r.id \/ DOMAIN cl = {r.id}
         IN [ret |-> None,
             call |-> Some([op |-> r.cmd, kind |-> cl[k].client.kind,
                            session |-> cl[k].client.session])]

\* client.rs 562-567 (and 891-896, 951-956, 988-993, 1045-1058): resolve the
\* client, fail hard or make the remote call
forward_entry(cl, r) ==
    LET c == get_client(cl, r.id) IN
    IF ~c.ok THEN [ret |-> Some(Err(c.err)), call |-> None]
    ELSE [ret |-> None,
          call |-> Some([op |-> r.cmd, kind |-> c.val.kind, session |-> c.val.session])]

\* call_tool without the tool name check of lines 643-652
call_tool_entry_no_name_check(cl, r) ==
    LET c == get_client(cl, r.id) IN
    IF ~c.ok THEN [ret |-> Some(Err(GetClientFailedPrefix \o c.err)), call |-> None]
    ELSE [ret |-> None,
          call |-> Some([op |-> "call_tool", kind |-> c.val.kind, session |-> c.val.session,
                         name |-> r.tool_name, arguments |-> NormalizeArguments(r.params)])]

\* call_tool checking the tool name before it resolves the client
call_tool_entry_name_first(cl, r) ==
    LET c == get_client(cl, r.id) IN
    IF r.tool_name = ""
    THEN [ret |-> Some(Ok(FailureResponse(EmptyToolNameMsg))), call |-> None]
    ELSE IF ~c.ok THEN [ret |-> Some(Err(GetClientFailedPrefix \o c.err)), call |-> None]
    ELSE [ret |-> None,
          call |-> Some([op |-> "call_tool", kind |-> c.val.kind, session |-> c.val.session,
                         name |-> r.tool_name, arguments |-> NormalizeArguments(r.params)])]

\* client.rs 624-770: call_tool up to the remote call
call_tool_entry(cl, r) ==
    LET c == get_client(cl, r.id) IN
    IF ~c.ok THEN [ret |-> Some(Err(GetClientFailedPrefix \o c.err)), call |-> None]
    ELSE IF r.tool_name = ""
    THEN [ret |-> Some(Ok(FailureResponse(EmptyToolNameMsg))), call |-> None]
    ELSE [ret |-> None,
          call |-> Some([op |-> "call_tool", kind |-> c.val.kind, session |-> c.val.session,
                         name |-> r.tool_name, arguments |-> NormalizeArguments(r.params)])]

\* a forwarding operation that takes the instance for dead when its call
\* failed or timed out
registry_after_forward_marks_failure(cl, id, outcome) ==
    IF outcome.ok THEN cl
    ELSE [cl EXCEPT ![id].status = Disconnected, ![id].connected_at = None]

\* client.rs 556, 608, 885, 943, 982, 1036: the forwarding operations take
\* `&self`; the registry after one of them, whatever the outcome of its call
registry_after_forward(cl, id, outcome) == cl

\* the elapsed deadline reported as the SDK's Timeout variant
TimeoutAsTimeoutError == Err([kind |-> "Timeout", payload |-> <<"elapsed">>])

\* client.rs 728-732 and 763-767: what the elapsed 30 s deadline becomes
TimeoutOutcome == Err(NotReady)

\* the match on the client kind with a Stdio arm that lets the SDK's own
\* Timeout variant stand for the elapsed deadline
await_remote_stdio_differs(kind, answer) ==
    IF kind = "sse"
    THEN IF answer.op = "elapsed" THEN TimeoutOutcome ELSE answer.outcome
    ELSE IF answer.op = "elapsed" THEN TimeoutAsTimeoutError ELSE answer.outcome

\* client.rs 564-567, 706-770 (and 893-896, 953-956, 990-993, 1047-1058):
\* `match client { Sse(client) => ..., Stdio(client) => ... }`, the outcome
\* the handler goes on with once the awaited call answered or, in
\* call_tool, its deadline elapsed
await_remote(kind, answer) ==
    IF kind = "sse"
    THEN IF answer.op = "elapsed" THEN TimeoutOutcome ELSE answer.outcome
    ELSE IF answer.op = "elapsed" THEN TimeoutOutcome ELSE answer.outcome

\* the envelope a forwarding operation builds for the outcome of its call
Envelope(cmd, outcome) ==
    IF outcome.ok THEN SuccessResponse(ResponseData(cmd, outcome.val))
    ELSE IF cmd = "call_tool" THEN CallToolFailure(outcome.err)
    ELSE ForwardFailure(outcome.err)

\* a forwarding operation that propagates the SDK failure with `?`
forward_result_propagating(cmd, outcome) ==
    IF outcome.ok THEN Ok(Envelope(cmd, outcome)) ELSE Err(to_string(outcome.err))

\* client.rs 569-603, 774-880, 898-938, 958-977, 995-1031, 1060-1079: what
\* a forwarding operation returns once its call has an outcome
forward_result(cmd, outcome) == Ok(Envelope(cmd, outcome))

\* a handler that issues its call again when the call failed or ran out
\* of time
sdk_after_retrying(log, step) ==
    IF step.op = "elapsed" \/ ~step.outcome.ok
    THEN Append(Append(log, step), log[Len(log)])
    ELSE Append(log, step)

\* client.rs 93-102, 243-252, 262-297, 569-603, 774-880, 898-938, 958-977,
\* 995-1031, 1060-1079: the calls a handler has made once the one it awaited
\* ended with step.  Every match on a result returns or goes on to the next
\* statement: no call is issued a second time.
sdk_after(log, step) == Append(log, step)

\* client.rs 98-101 and 248-251: transport.start() failed
start_failed(cl, e) == [clients |-> cl, result |-> Err(to_string(e))]

\* a failed handshake that leaves an instance in Error status behind
initialize_failed_keeps_entry(cl, r, client, e) ==
    [clients |-> Insert(cl, r.id,
                        [id |-> r.id, client |-> client, status |-> ErrorStatus(to_string(e)),
                         connected_at |-> None, server_info |-> None]),
     result |-> Err(<<"Failed to initialize client: ">> \o to_string(e))]

\* client.rs 320-323: the handshake failed
initialize_failed(cl, r, client, e) ==
    [clients |-> cl, result |-> Err(<<"Failed to initialize client: ">> \o to_string(e))]

(* ------------------------------ actions -------------------------------- *)

Init ==
    /\ clients = EmptyRegistry
    /\ now = 0
    /\ nextSession = 0
    /\ lock = NoTask
    /\ pc = [t \in Tasks |-> "idle"]
    /\ req = [t \in Tasks |-> NoReq]
    /\ res = [t \in Tasks |-> NoRes]
    /\ loc = [t \in Tasks |-> <<>>]
    /\ pre = [t \in Tasks |-> EmptyRegistry]
    /\ sdk = [t \in Tasks |-> <<>>]

\* the UI invokes a command: the task runs up to lock().await.  Nothing
\* reads the request before the lock is granted, so it is drawn when the
\* handler starts.
Invoke(t) ==
    /\ pc[t] = "idle"
    /\ pc' = [pc EXCEPT ![t] = "waiting"]
    /\ UNCHANGED <<clients, now, nextSession, lock, req, res, loc, pre, sdk>>

\* the handlers entered without the Mutex: a task starts whether or not
\* another one is inside a handler
Locks_without_mutex(t, r) ==
    /\ pc[t] = "waiting"
    /\ lock' = t
    /\ req' = [req EXCEPT ![t] = r]
    /\ pre' = [pre EXCEPT ![t] = clients]

\* commands.rs: state.mcp_client_manager.lock().await is granted to t,
\* whose command was invoked with request r
Locks(t, r) ==
    /\ pc[t] = "waiting"
    /\ lock = NoTask
    /\ lock' = t
    /\ req' = [req EXCEPT ![t] = r]
    /\ pre' = [pre EXCEPT ![t] = clients]

\* the handler has its return value; the guard is still held
Returns(t, result) ==
    /\ pc' = [pc EXCEPT ![t] = "done"]
    /\ res' = [res EXCEPT ![t] = result]

\* the handler awaits an SDK call
Awaits(t, label, call) ==
    /\ pc' = [pc EXCEPT ![t] = label]
    /\ sdk' = [sdk EXCEPT ![t] = Append(@, call)]
    /\ UNCHANGED res

\* commands.rs 7-14, client.rs 54-243: initialize_client with a request of
\* requests in a process of systems
InitializeClientOn(t, requests, systems) ==
    /\ pc[t] = "waiting"
    /\ \E r \in requests, sys \in systems :
         /\ Locks(t, r)
         /\ LET e == initialize_client_entry(clients, r, sys) IN
            IF e.ok
            THEN /\ nextSession < MaxSessions
                 /\ Awaits(t, "starting", e.val)
                 /\ loc' = [loc EXCEPT ![t] =
                               IF e.val.kind = "stdio" THEN [sys |-> sys] ELSE @]
            ELSE Returns(t, Err(e.err)) /\ UNCHANGED <<sdk, loc>>
    /\ UNCHANGED <<clients, now, nextSession>>

\* commands.rs 7-14, client.rs 54-243
InitializeClient(t) ==
    InitializeClientOn(t, { q \in Requests : q.cmd = "initialize_client" }, {HostSystem})

\* client.rs 93-106 and 243-297: transport.start() answers; on success the
\* client is built and initialize() is called
StartReturns(t) ==
    /\ pc[t] = "starting"
    /\ \/ \E e \in StartErrors :
            LET s == start_failed(clients, e) IN
            /\ clients' = s.clients
            /\ pc' = [pc EXCEPT ![t] = "done"]
            /\ res' = [res EXCEPT ![t] = s.result]
            /\ sdk' = [sdk EXCEPT ![t] = sdk_after(@, [op |-> "answer", outcome |-> Err(e)])]
            /\ UNCHANGED <<nextSession, loc>>
       \/ LET client == [kind |-> req[t].transport_type, session |-> nextSession + 1] IN
            /\ nextSession' = nextSession + 1
            /\ loc' = [loc EXCEPT ![t] = [client |-> client]]
            /\ pc' = [pc EXCEPT ![t] = "handshaking"]
            /\ sdk' = [sdk EXCEPT ![t] =
                          @ \o << [op |-> "answer", outcome |-> Ok(client.session)],
                                  [op |-> "initialize", kind |-> client.kind,
                                   session |-> client.session,
                                   name |-> req[t].client_name,
                                   version |-> req[t].client_version] >>]
            /\ UNCHANGED <<clients, res>>
    /\ UNCHANGED <<now, lock, req, pre>>

\* client.rs 299-351: initialize() answers
InitializeReturns(t) ==
    /\ pc[t] = "handshaking"
    /\ \/ \E e \in RemoteErrors :
            LET s == initialize_failed(clients, req[t], loc[t].client, e) IN
            /\ clients' = s.clients
            /\ Returns(t, s.result)
            /\ sdk' = [sdk EXCEPT ![t] = sdk_after(@, [op |-> "answer", outcome |-> Err(e)])]
       \/ \E info \in InitializeResults(loc[t].client.session) :
            LET s == initialize_client_store(clients, req[t], loc[t].client, info, now) IN
            /\ clients' = s.clients
            /\ Returns(t, s.result)
            /\ sdk' = [sdk EXCEPT ![t] = sdk_after(@, [op |-> "answer", outcome |-> Ok(info)])]
    /\ UNCHANGED <<now, nextSession, lock, req, loc, pre>>

\* commands.rs 16-24, client.rs 354-367: the lookup and, for a present
\* instance, the first of the two assignments
DisconnectClient(t) ==
    \E r \in { q \in Requests : q.cmd = "disconnect_client" } :
       /\ Locks(t, r)
       /\ IF ContainsKey(clients, r.id)
          THEN /\ clients' = disconnect_client_status(clients, r.id)
               /\ pc' = [pc EXCEPT ![t] = "disconnecting"]
               /\ UNCHANGED res
          ELSE LET s == disconnect_client(clients, r.id) IN
               clients' = s.clients /\ Returns(t, s.result)
       /\ UNCHANGED <<now, nextSession, loc, sdk>>

\* client.rs 368-377: the second assignment and the snapshot returned
DisconnectCompletes(t) ==
    /\ pc[t] = "disconnecting"
    /\ LET s == disconnect_client(clients, req[t].id) IN
       clients' = s.clients /\ Returns(t, s.result)
    /\ UNCHANGED <<now, nextSession, lock, req, loc, pre, sdk>>

\* commands.rs 26-34, client.rs 381-393
DeleteClient(t) ==
    \E r \in { q \in Requests : q.cmd = "delete_client" } :
       /\ Locks(t, r)
       /\ LET s == delete_client(clients, r.id) IN
          clients' = s.clients /\ Returns(t, s.result)
       /\ UNCHANGED <<now, nextSession, loc, sdk>>

\* commands.rs 36-44, client.rs 396-439
GetClientStatus(t) ==
    \E r \in { q \in Requests : q.cmd = "get_client_status" } :
       /\ Locks(t, r)
       /\ Returns(t, get_client_status(clients, r.id))
       /\ UNCHANGED <<clients, now, nextSession, loc, sdk>>

\* commands.rs 46-53, client.rs 442-462
GetAllClientStatuses(t) ==
    \E r \in { q \in Requests : q.cmd = "get_all_client_statuses" } :
       /\ Locks(t, r)
       /\ \E order \in Orders(DOMAIN clients) :
             Returns(t, Ok(get_all_client_statuses(clients, order)))
       /\ UNCHANGED <<clients, now, nextSession, loc, sdk>>

\* commands.rs 55-63, client.rs 465-495: the lookup, the early return for
\* a connected instance and, for any other, the assignment of Connecting;
\* utc_now is what Utc::now() reads while the handler runs
RepairClient(t) ==
    \E r \in { q \in Requests : q.cmd = "repair_client" } :
       /\ Locks(t, r)
       /\ IF ContainsKey(clients, r.id) /\ clients[r.id].status # Connected
          THEN /\ clients' = repair_client_connecting(clients, r.id)
               /\ pc' = [pc EXCEPT ![t] = "repairing"]
               /\ UNCHANGED <<res, loc>>
          ELSE /\ LET s == repair_client(clients, r.id, now) IN
                  clients' = s.clients /\ Returns(t, s.result)
               /\ loc' = [loc EXCEPT ![t] = [utc_now |-> now]]
       /\ UNCHANGED <<now, nextSession, sdk>>

\* client.rs 498-531: the match on the kind, Connected with the timestamp,
\* and the snapshot returned
RepairCompletes(t) ==
    /\ pc[t] = "repairing"
    /\ LET s == repair_client(clients, req[t].id, now) IN
       clients' = s.clients /\ Returns(t, s.result)
    /\ loc' = [loc EXCEPT ![t] = [utc_now |-> now]]
    /\ UNCHANGED <<now, nextSession, lock, req, pre, sdk>>

\* commands.rs 65-73 and 140-178, client.rs 555-567, 884-896, 942-956,
\* 981-993, 1035-1058: the five operations without a deadline
Forward(t) ==
    \E r \in { q \in Requests : q.cmd \in ForwardCmds } :
       /\ Locks(t, r)
       /\ LET e == forward_entry(clients, r) IN
          IF e.ret # None THEN Returns(t, e.ret[1]) /\ UNCHANGED sdk
          ELSE Awaits(t, "calling", e.call[1])
       /\ UNCHANGED <<clients, now, nextSession, loc>>

\* commands.rs 75-138, client.rs 607-770
CallToolOf(t, requests) ==
    /\ pc[t] = "waiting"
    /\ \E r \in requests :
          /\ Locks(t, r)
          /\ LET e == call_tool_entry(clients, r) IN
             IF e.ret # None THEN Returns(t, e.ret[1]) /\ UNCHANGED sdk
             ELSE Awaits(t, "calling", e.call[1])
          /\ UNCHANGED <<clients, now, nextSession, loc>>

CallTool(t) == CallToolOf(t, { q \in Requests : q.cmd = "call_tool" })

\* the awaited remote call answers (client.rs 569-603, 716-727, 749-762,
\* 774-880, 898-938, 958-977, 995-1031, 1060-1079)
RemoteReturnsOf(t, errors) ==
    /\ pc[t] = "calling"
    /\ \E outcome \in { Ok(r) : r \in RemoteResults(req[t].cmd) } \cup { Err(e) : e \in errors } :
          LET answer == [op |-> "answer", outcome |-> outcome] IN
          /\ sdk' = [sdk EXCEPT ![t] = sdk_after(@, answer)]
          /\ pc' = [pc EXCEPT ![t] = "done"]
          /\ res' = [res EXCEPT ![t] =
                        forward_result(req[t].cmd, await_remote(sdk[t][1].kind, answer))]
          /\ clients' = registry_after_forward(clients, req[t].id,
                                                await_remote(sdk[t][1].kind, answer))
    /\ UNCHANGED <<now, nextSession, lock, req, loc, pre>>

RemoteReturns(t) == RemoteReturnsOf(t, RemoteErrors)

\* call_tool without a deadline: the timer never fires
CallToolTimeout_never(t) ==
    /\ FALSE
    /\ UNCHANGED vars

\* client.rs 710-733 and 743-768: the 30 s deadline of call_tool elapses
\* before the remote call answers
CallToolTimeout(t) ==
    /\ pc[t] = "calling"
    /\ req[t].cmd = "call_tool"
    /\ sdk' = [sdk EXCEPT ![t] = sdk_after(@, [op |-> "elapsed"])]
    /\ pc' = [pc EXCEPT ![t] = "done"]
    /\ res' = [res EXCEPT ![t] =
                  forward_result("call_tool", await_remote(sdk[t][1].kind, [op |-> "elapsed"]))]
    /\ clients' = registry_after_forward(clients, req[t].id,
                                          await_remote(sdk[t][1].kind, [op |-> "elapsed"]))
    /\ UNCHANGED <<now, nextSession, lock, req, loc, pre>>

\* a command that keeps the guard when it returns a failure
Return_keeps_lock_after_failure(t) ==
    /\ pc[t] = "done"
    /\ lock' = IF lock = t /\ res[t].ok THEN NoTask ELSE lock
    /\ pc' = [pc EXCEPT ![t] = "idle"]
    /\ req' = [req EXCEPT ![t] = NoReq]
    /\ res' = [res EXCEPT ![t] = NoRes]
    /\ loc' = [loc EXCEPT ![t] = <<>>]
    /\ pre' = [pre EXCEPT ![t] = EmptyRegistry]
    /\ sdk' = [sdk EXCEPT ![t] = <<>>]
    /\ UNCHANGED <<clients, now, nextSession>>

\* the command returns to the UI: the MutexGuard is dropped
Return(t) ==
    /\ pc[t] = "done"
    /\ lock' = IF lock = t THEN NoTask ELSE lock
    /\ pc' = [pc EXCEPT ![t] = "idle"]
    /\ req' = [req EXCEPT ![t] = NoReq]
    /\ res' = [res EXCEPT ![t] = NoRes]
    /\ loc' = [loc EXCEPT ![t] = <<>>]
    /\ pre' = [pre EXCEPT ![t] = EmptyRegistry]
    /\ sdk' = [sdk EXCEPT ![t] = <<>>]
    /\ UNCHANGED <<clients, now, nextSession>>

\* time passes
Tick ==
    /\ now < MaxTime
    /\ now' = now + 1
    /\ UNCHANGED <<clients, nextSession, lock, pc, req, res, loc, pre, sdk>>

Next ==
    \/ \E t \in Tasks : Invoke(t)
    \/ \E t \in Tasks : InitializeClient(t)
    \/ \E t \in Tasks : StartReturns(t)
    \/ \E t \in Tasks : InitializeReturns(t)
    \/ \E t \in Tasks : DisconnectClient(t)
    \/ \E t \in Tasks : DisconnectCompletes(t)
    \/ \E t \in Tasks : DeleteClient(t)
    \/ \E t \in Tasks : GetClientStatus(t)
    \/ \E t \in Tasks : GetAllClientStatuses(t)
    \/ \E t \in Tasks : RepairClient(t)
    \/ \E t \in Tasks : RepairCompletes(t)
    \/ \E t \in Tasks : Forward(t)
    \/ \E t \in Tasks : CallTool(t)
    \/ \E t \in Tasks : RemoteReturns(t)
    \/ \E t \in Tasks : CallToolTimeout(t)
    \/ \E t \in Tasks : Return(t)
    \/ Tick

Spec == Init /\ [][Next]_vars

(* --------------------- call_tool over its inputs ----------------------- *)

\* the most members a generated parameter map has
MaxMembers == 2

\* the keys of the generated maps, in the two orders a text lists them
NormKeys == <<"name", "arguments", "a">>

NormKeysReversed == <<"a", "arguments", "name">>

\* the values a member of a generated map holds
NormLeaves ==
    { JNull, JNum("1"), JStr(<<W("x")>>), JArr(<<JNum("1")>>), JObj([a |-> JNum("1")]) }

NormObjects ==
    UNION { { JObj(m) : m \in [K -> NormLeaves] } :
              K \in { K \in SUBSET {"name", "arguments", "a"} : Cardinality(K) <= MaxMembers } }

\* the serde_json values a caller passes or spells out
NormValues == NormLeaves \cup { JBool(TRUE) } \cup NormObjects

\* the JSON text of value v, the members of a map in the order of keys
RECURSIVE Text(_, _), ElementsText(_, _), MembersText(_, _, _)
Text(v, keys) ==
    CASE v.t = "Null" -> <<W("null")>>
      [] v.t = "Bool" -> <<W(IF v.b THEN "true" ELSE "false")>>
      [] v.t = "Number" -> <<N(v.n)>>
      [] v.t = "String" -> <<S(v.s[1].v)>>
      [] v.t = "Array" -> <<P("[")>> \o ElementsText(v.items, keys) \o <<P("]")>>
      [] OTHER ->
            <<P("{")>>
            \o MembersText(v.map, SelectSeq(keys, LAMBDA k : k \in DOMAIN v.map), keys)
            \o <<P("}")>>

ElementsText(items, keys) ==
    IF items = <<>> THEN <<>>
    ELSE Text(items[1], keys)
         \o (IF Len(items) > 1 THEN <<P(",")>> \o ElementsText(Tail(items), keys) ELSE <<>>)

MembersText(map, ks, keys) ==
    IF ks = <<>> THEN <<>>
    ELSE <<S(ks[1]), P(":")>> \o Text(map[ks[1]], keys)
         \o (IF Len(ks) > 1 THEN <<P(",")>> \o MembersText(map, Tail(ks), keys) ELSE <<>>)

\* each text with the value it spells
NormTextPairs ==
    { <<Text(v, keys), v>> : v \in NormValues, keys \in {NormKeys, NormKeysReversed} }

\* texts that are no JSON: a JSON text cut before its last token, and a
\* bare word
NormBrokenTexts ==
    { SubSeq(p[1], 1, Len(p[1]) - 1) : p \in NormTextPairs } \cup { <<W("hello")>> }

\* the params of a ToolCallRequest (types.rs 66-70): a value as it is, or a
\* text
NormParams ==
    NormValues
    \cup { JStr(p[1]) : p \in NormTextPairs }
    \cup { JStr(x) : x \in NormBrokenTexts }

NormRequests ==
    { [cmd |-> "call_tool", id |-> "a", tool_name |-> "echo", params |-> p] : p \in NormParams }

\* the registry after one successful register of "a", of either kind
InitCall ==
    /\ \E r \in { q \in InitializeRequests : q.id = "a" /\ MissingTarget(q) = None } :
         \E info \in InitializeResults(1) :
            clients = initialize_client_store(EmptyRegistry, r,
                          [kind |-> r.transport_type, session |-> 1], info, 0).clients
    /\ now = 0
    /\ nextSession = 1
    /\ lock = NoTask
    /\ pc = [t \in Tasks |-> "idle"]
    /\ req = [t \in Tasks |-> NoReq]
    /\ res = [t \in Tasks |-> NoRes]
    /\ loc = [t \in Tasks |-> <<>>]
    /\ pre = [t \in Tasks |-> EmptyRegistry]
    /\ sdk = [t \in Tasks |-> <<>>]

\* call_tool on every parameter value, the server answering with every
\* failure of the SDK
NextCall ==
    \/ \E t \in Tasks : Invoke(t)
    \/ \E t \in Tasks : CallToolOf(t, NormRequests)
    \/ \E t \in Tasks : RemoteReturnsOf(t, McpErrors)
    \/ \E t \in Tasks : CallToolTimeout(t)
    \/ \E t \in Tasks : Return(t)

SpecCall == InitCall /\ [][NextCall]_vars

(* ------------------- two connections, fair scheduling ------------------ *)

\* the registry after "a" was registered over SSE and "b" over stdio
InitLive ==
    /\ LET ra == CHOOSE q \in InitializeRequests :
                    q.id = "a" /\ q.transport_type = "sse" /\ MissingTarget(q) = None
           rb == CHOOSE q \in InitializeRequests :
                    q.id = "b" /\ q.transport_type = "stdio" /\ MissingTarget(q) = None
           ia == CHOOSE info \in InitializeResults(1) : TRUE
           ib == CHOOSE info \in InitializeResults(2) : TRUE
           one == initialize_client_store(EmptyRegistry, ra,
                                          [kind |-> "sse", session |-> 1], ia, 0).clients
       IN clients = initialize_client_store(one, rb,
                                            [kind |-> "stdio", session |-> 2], ib, 0).clients
    /\ now = 0
    /\ nextSession = 2
    /\ lock = NoTask
    /\ pc = [t \in Tasks |-> "idle"]
    /\ req = [t \in Tasks |-> NoReq]
    /\ res = [t \in Tasks |-> NoRes]
    /\ loc = [t \in Tasks |-> <<>>]
    /\ pre = [t \in Tasks |-> EmptyRegistry]
    /\ sdk = [t \in Tasks |-> <<>>]

\* status queries, disconnects and the six forwarding operations
NextLive ==
    \/ \E t \in Tasks : Invoke(t)
    \/ \E t \in Tasks : GetClientStatus(t)
    \/ \E t \in Tasks : DisconnectClient(t)
    \/ \E t \in Tasks : DisconnectCompletes(t)
    \/ \E t \in Tasks : Forward(t)
    \/ \E t \in Tasks : CallTool(t)
    \/ \E t \in Tasks : RemoteReturns(t)
    \/ \E t \in Tasks : CallToolTimeout(t)
    \/ \E t \in Tasks : Return(t)

\* a handler of task t starts: lock().await was granted
HandlerStarts(t) ==
    GetClientStatus(t) \/ DisconnectClient(t) \/ Forward(t) \/ CallTool(t)

\* what the runtime guarantees.  tokio's Mutex hands the lock to its
\* waiters in turn, so a task that can take it again and again does take it
\* (SF); code without an await runs on (WF on the second step of
\* disconnect and on the return); the timer of tokio::time::timeout fires
\* (WF).  Nothing makes a server answer: RemoteReturns is not fair.
Fairness ==
    \A t \in Tasks :
        /\ SF_vars(HandlerStarts(t))
        /\ WF_vars(DisconnectCompletes(t))
        /\ WF_vars(CallToolTimeout(t))
        /\ WF_vars(Return(t))

SpecLive == InitLive /\ [][NextLive]_vars /\ Fairness

(* -------------------- every call answered, fair scheduling -------------------- *)

\* a handler of task t starts, whatever its command: lock().await was granted
CommandStarts(t) ==
    \/ InitializeClient(t)
    \/ DisconnectClient(t)
    \/ DeleteClient(t)
    \/ GetClientStatus(t)
    \/ GetAllClientStatuses(t)
    \/ RepairClient(t)
    \/ Forward(t)
    \/ CallTool(t)

\* the runtime's guarantees (the Mutex serves its waiters in turn, code
\* without an await runs on, the timer fires) together with servers and
\* transports that answer: every transport start, handshake and remote
\* call returns
FairnessAnswered ==
    \A t \in Tasks :
        /\ SF_vars(CommandStarts(t))
        /\ WF_vars(StartReturns(t))
        /\ WF_vars(InitializeReturns(t))
        /\ WF_vars(DisconnectCompletes(t))
        /\ WF_vars(RepairCompletes(t))
        /\ WF_vars(RemoteReturns(t))
        /\ WF_vars(CallToolTimeout(t))
        /\ WF_vars(Return(t))

\* every command at one reading of the clock
NextAnswered ==
    \/ \E t \in Tasks : Invoke(t)
    \/ \E t \in Tasks : CommandStarts(t)
    \/ \E t \in Tasks : StartReturns(t)
    \/ \E t \in Tasks : InitializeReturns(t)
    \/ \E t \in Tasks : DisconnectCompletes(t)
    \/ \E t \in Tasks : RepairCompletes(t)
    \/ \E t \in Tasks : RemoteReturns(t)
    \/ \E t \in Tasks : CallToolTimeout(t)
    \/ \E t \in Tasks : Return(t)

SpecAnswered == Init /\ [][NextAnswered]_vars /\ FairnessAnswered

(* -------------------- initialize_client over its inputs -------------------- *)

\* the argument lists a caller sends: none, or two words in order
StartArgs == {None, Some(<<"-y", "srv">>)}

\* the variables a caller sends for the subprocess: none, a token, a PATH of
\* one entry, and PATHs of two entries written for either platform
StartHeaders ==
    { None,
      Some([TOKEN |-> <<"secret">>]),
      Some([PATH |-> <<"/opt/bin">>]),
      Some([PATH |-> <<"/opt/a", ":", "/opt/b">>, TOKEN |-> <<"secret">>]),
      Some([PATH |-> <<"D:/a", ";", "D:/b">>]) }

\* InitializeClientRequest for a Stdio server, types.rs 14-28
StartRequests ==
    { [cmd |-> "initialize_client", id |-> "a", transport_type |-> "stdio",
       sse_url |-> None, command |-> Some("npx"), args |-> a, headers |-> h,
       client_name |-> "fishmind", client_version |-> "0.1.0"] :
         a \in StartArgs, h \in StartHeaders }

\* the processes the handler can run in
Systems == WindowsSystems("npx") \cup OtherSystems("npx")

\* registrations of Stdio servers
NextStart ==
    \/ \E t \in Tasks : Invoke(t)
    \/ \E t \in Tasks : InitializeClientOn(t, StartRequests, Systems)
    \/ \E t \in Tasks : StartReturns(t)
    \/ \E t \in Tasks : InitializeReturns(t)
    \/ \E t \in Tasks : Return(t)

SpecStart == Init /\ [][NextStart]_vars

(* ------------------------------ claims --------------------------------- *)

ForwardingCmds == ForwardCmds \cup {"call_tool"}

\* task t has run command cmd to its return value
Done(t, cmd) == pc[t] = "done" /\ req[t].cmd = cmd

\* message msg ends with the fragments of m
HasSuffix(msg, m) ==
    /\ Len(msg) >= Len(m)
    /\ SubSeq(msg, Len(msg) - Len(m) + 1, Len(msg)) = m

\* the running command got a failure from the SDK, or its deadline elapsed
SdkFailed(t) ==
    \E i \in DOMAIN sdk[t] :
        \/ sdk[t][i].op = "elapsed"
        \/ sdk[t][i].op = "answer" /\ ~sdk[t][i].outcome.ok

\* C1: a register whose identifier is already in the registry fails with the
\* "already exists" failure whatever the status of the entry, starts no
\* transport, and leaves the whole registry (status, timestamp, descriptor
\* and transport session of the entry included) as it was.
C1_DuplicateRejected ==
    \A t \in Tasks :
        Done(t, "initialize_client") /\ req[t].id \in DOMAIN pre[t] =>
            /\ res[t] = Err(AlreadyExistsMsg(req[t].id))
            /\ clients = pre[t]
            /\ sdk[t] = <<>>

C1_Witness ==
    \E t \in Tasks :
        /\ Done(t, "initialize_client")
        /\ req[t].id \in DOMAIN pre[t]
        /\ pre[t][req[t].id].status = Disconnected
        /\ MissingTarget(req[t]) = None

\* C2: when register returns success, get_client_status of the identifier
\* succeeds with status Connected, a present timestamp and a present
\* descriptor, and it is the very response register returned.
C2_RegisterThenStatus ==
    \A t \in Tasks :
        Done(t, "initialize_client") /\ res[t].ok =>
            LET st == get_client_status(clients, req[t].id) IN
            /\ st.ok
            /\ st.val.status = Connected
            /\ st.val.connected_at # None
            /\ st.val.server_info # None
            /\ st.val.connected_at = res[t].val.connected_at
            /\ st.val.server_info = res[t].val.server_info
            /\ st = res[t]

C2_Witness ==
    \E t \in Tasks :
        /\ Done(t, "initialize_client")
        /\ res[t].ok
        /\ req[t].transport_type = "stdio"
        /\ DOMAIN pre[t] # {}

\* C3: a register that fails leaves the registry as it was; when the
\* identifier was free and the target is missing, the transport start fails
\* or the handshake fails, register fails and the identifier is still
\* absent (get_client_status answers not found).
C3_RegisterAllOrNothing ==
    \A t \in Tasks :
        Done(t, "initialize_client") =>
            /\ ~res[t].ok => clients = pre[t]
            /\ req[t].id \notin DOMAIN pre[t] /\ (MissingTarget(req[t]) # None \/ SdkFailed(t)) =>
                  /\ ~res[t].ok
                  /\ req[t].id \notin DOMAIN clients
                  /\ get_client_status(clients, req[t].id) = Err(NotFoundMsg(req[t].id))

C3_Witness ==
    \E t \in Tasks :
        /\ Done(t, "initialize_client")
        /\ Len(sdk[t]) = 4
        /\ sdk[t][3].op = "initialize"
        /\ ~sdk[t][4].outcome.ok
        /\ DOMAIN pre[t] # {}

\* C4: disconnect of a present identifier succeeds, keeps the entry, and a
\* following get_client_status answers Disconnected with no timestamp and
\* the descriptor the entry had before.
C4_DisconnectKeepsEntry ==
    \A t \in Tasks :
        Done(t, "disconnect_client") /\ req[t].id \in DOMAIN pre[t] =>
            LET id == req[t].id
                expected == [id |-> id, status |-> Disconnected, error |-> None,
                             connected_at |-> None,
                             server_info |-> pre[t][id].server_info]
            IN /\ res[t] = Ok(expected)
               /\ get_client_status(clients, id) = Ok(expected)
               /\ DOMAIN clients = DOMAIN pre[t]

C4_Witness ==
    \E t \in Tasks :
        /\ Done(t, "disconnect_client")
        /\ req[t].id \in DOMAIN pre[t]
        /\ pre[t][req[t].id].status = Connected
        /\ pre[t][req[t].id].connected_at # None

\* C5: after a successful delete the identifier is absent, get_client_status
\* answers not found, and a further delete fails with not found and changes
\* nothing; an absent identifier enters the registry only by a register.
C5_DeleteThenAbsent ==
    /\ \A t \in Tasks :
          Done(t, "delete_client") =>
              LET id == req[t].id IN
              /\ id \in DOMAIN pre[t] =>
                    /\ res[t] = Ok(<<>>)
                    /\ id \notin DOMAIN clients
                    /\ get_client_status(clients, id) = Err(NotFoundMsg(id))
                    /\ delete_client(clients, id) = [clients |-> clients, result |-> Err(NotFoundMsg(id))]
              /\ id \notin DOMAIN pre[t] =>
                    /\ res[t] = Err(NotFoundMsg(id))
                    /\ clients = pre[t]
    /\ \A t \in Tasks :
          lock = t =>
              \A id \in DOMAIN clients \ DOMAIN pre[t] :
                  req[t].cmd = "initialize_client" /\ req[t].id = id

C5_Witness ==
    \E t \in Tasks :
        /\ Done(t, "delete_client")
        /\ res[t].ok
        /\ pre[t][req[t].id].status = Connected
        /\ clients # EmptyRegistry

\* C6: each of the six forwarding operations fails hard, with not found for
\* an absent identifier and with not connected for a present one whose
\* status is not Connected, and makes no call on any transport.
C6_ForwardPrecondition ==
    \A t \in Tasks :
        pc[t] = "done" /\ req[t].cmd \in ForwardingCmds =>
            LET id == req[t].id IN
            /\ id \notin DOMAIN pre[t] =>
                  /\ ~res[t].ok
                  /\ HasSuffix(res[t].err, NotFoundMsg(id))
                  /\ sdk[t] = <<>>
            /\ id \in DOMAIN pre[t] /\ pre[t][id].status # Connected =>
                  /\ ~res[t].ok
                  /\ HasSuffix(res[t].err, NotConnectedMsg(id))
                  /\ sdk[t] = <<>>

C6_Witness ==
    \E t \in Tasks :
        /\ Done(t, "read_resource")
        /\ req[t].id \in DOMAIN pre[t]
        /\ pre[t][req[t].id].status = Disconnected

\* C7: call_tool with an empty tool name on a Connected client returns a
\* success=false envelope with no data and a non-empty message, and makes
\* no remote call.
C7_EmptyToolName ==
    \A t \in Tasks :
        /\ Done(t, "call_tool")
        /\ req[t].tool_name = ""
        /\ req[t].id \in DOMAIN pre[t]
        /\ pre[t][req[t].id].status = Connected
        => /\ res[t].ok
           /\ res[t].val.success = FALSE
           /\ res[t].val.data = None
           /\ res[t].val.error # None
           /\ Len(res[t].val.error[1]) > 0
           /\ sdk[t] = <<>>

C7_Witness ==
    \E t \in Tasks :
        /\ Done(t, "call_tool")
        /\ req[t].tool_name = ""
        /\ req[t].id \in DOMAIN pre[t]
        /\ pre[t][req[t].id].status = Connected

\* C8: every envelope a forwarding operation returns has either success,
\* data and no error, or no success, no data and an error.
C8_EnvelopeWellFormed ==
    \A t \in Tasks :
        pc[t] = "done" /\ req[t].cmd \in ForwardingCmds /\ res[t].ok =>
            LET e == res[t].val IN
            /\ e.success => e.data # None /\ e.error = None
            /\ ~e.success => e.data = None /\ e.error # None

C8_Witness ==
    \E t \in Tasks :
        /\ Done(t, "call_tool")
        /\ res[t].ok
        /\ ~res[t].val.success
        /\ sdk[t] # <<>>

\* C9: on a Connected client a failure of the forwarded call (or the
\* elapsed deadline) is returned as a success=false envelope with a
\* message; a forwarding operation fails hard only when the identifier is
\* absent or not Connected.
C9_FailuresInEnvelope ==
    \A t \in Tasks :
        pc[t] = "done" /\ req[t].cmd \in ForwardingCmds =>
            /\ SdkFailed(t) =>
                  /\ res[t].ok
                  /\ ~res[t].val.success
                  /\ res[t].val.error # None
            /\ ~res[t].ok =>
                  /\ sdk[t] = <<>>
                  /\ \/ req[t].id \notin DOMAIN pre[t]
                     \/ pre[t][req[t].id].status # Connected

C9_Witness ==
    \E t \in Tasks :
        /\ Done(t, "get_prompt")
        /\ Len(sdk[t]) = 2
        /\ sdk[t][2].op = "answer"
        /\ ~sdk[t][2].outcome.ok

\* C10: a call_tool whose deadline elapses before the remote call answers
\* returns, on either transport kind, the success=false envelope whose
\* message is the rendering of the SDK's NotReady failure: the same return
\* value as when the transport itself answers NotReady.
C10_TimeoutIsNotReady ==
    \A t \in Tasks :
        Done(t, "call_tool") /\ sdk[t] # <<>> /\ sdk[t][Len(sdk[t])].op = "elapsed" =>
            /\ res[t] = Ok([success |-> FALSE, data |-> None,
                            error |-> Some(error_message(NotReady))])
            /\ res[t] = forward_result("call_tool", Err(NotReady))

C10_Witness ==
    \E t \in Tasks :
        /\ Done(t, "call_tool")
        /\ Len(sdk[t]) = 2
        /\ sdk[t][1].kind = "stdio"
        /\ sdk[t][2].op = "elapsed"

\* task t is awaiting the remote call of call_tool
Calling(t) == pc[t] = "calling" /\ req[t].cmd = "call_tool"

\* the arguments call_tool handed to the SDK
Forwarded(t) == sdk[t][1].arguments

\* value v is an invoke envelope: a map with `name` and `arguments`, the
\* latter a map
EnvelopeShape(v) ==
    /\ v.t = "Object"
    /\ {"name", "arguments"} \subseteq DOMAIN v.map
    /\ v.map["arguments"].t = "Object"

\* C11: when the params of call_tool are a text spelling a map that has both
\* a `name` and an `arguments` member, `arguments` being a map, the
\* arguments forwarded to the SDK are exactly that `arguments` map.
C11_EnvelopeUnwrapped ==
    \A t \in Tasks :
        Calling(t) =>
            \A p \in NormTextPairs :
                (req[t].params = JStr(p[1]) /\ EnvelopeShape(p[2]))
                    => Forwarded(t) = p[2].map["arguments"]

C11_Witness ==
    \E t \in Tasks :
        /\ Calling(t)
        /\ req[t].params =
              JStr(Text(JObj([name |-> JStr(<<W("x")>>), arguments |-> JObj([a |-> JNum("1")])]),
                        NormKeys))
        /\ Forwarded(t) = JObj([a |-> JNum("1")])

\* C12: params that are a text which is no JSON are forwarded unchanged, as
\* the same text; params that are not a text (map, array, number, boolean,
\* null) are forwarded unchanged, even a map that has the shape of an invoke
\* envelope.
C12_PassThrough ==
    \A t \in Tasks :
        Calling(t) =>
            /\ req[t].params.t # "String" => Forwarded(t) = req[t].params
            /\ (req[t].params.t = "String" /\ req[t].params.s \in NormBrokenTexts)
                  => Forwarded(t) = req[t].params

C12_Witness ==
    \E t \in Tasks :
        /\ Calling(t)
        /\ req[t].params.t = "Object"
        /\ EnvelopeShape(req[t].params)
        /\ Forwarded(t) = req[t].params

\* C13: when the params of call_tool are a text spelling a JSON value that
\* is not an invoke envelope (a map lacking `name` or `arguments`, a map
\* whose `arguments` is not a map, or no map at all), the value the text
\* spells is forwarded whole.
C13_ShapeMismatch ==
    \A t \in Tasks :
        Calling(t) =>
            \A p \in NormTextPairs :
                (req[t].params = JStr(p[1]) /\ ~EnvelopeShape(p[2]))
                    => Forwarded(t) = p[2]

C13_Witness ==
    \E t \in Tasks :
        /\ Calling(t)
        /\ req[t].params =
              JStr(Text(JObj([name |-> JStr(<<W("x")>>), arguments |-> JArr(<<JNum("1")>>)]),
                        NormKeysReversed))
        /\ Forwarded(t) = JObj([name |-> JStr(<<W("x")>>), arguments |-> JArr(<<JNum("1")>>)])

\* C14: get_all_client_statuses returns exactly one entry for every
\* identifier of the registry and nothing else, each entry being what
\* get_client_status answers for that identifier in the same state.
C14_AllStatuses ==
    \A t \in Tasks :
        (Done(t, "get_all_client_statuses") /\ res[t].ok) =>
            LET out == res[t].val IN
            /\ Len(out) = Cardinality(DOMAIN clients)
            /\ { out[i].id : i \in DOMAIN out } = DOMAIN clients
            /\ \A i \in DOMAIN out : Ok(out[i]) = get_client_status(clients, out[i].id)

C14_Witness ==
    \E t \in Tasks :
        /\ Done(t, "get_all_client_statuses")
        /\ res[t].ok
        /\ Len(res[t].val) = 2
        /\ res[t].val[1].id # res[t].val[2].id
        /\ res[t].val[1].status # res[t].val[2].status

\* C15: repair_client on an identifier whose instance is Connected changes
\* nothing: it returns the snapshot of the instance as it was, and status,
\* timestamp (not refreshed), descriptor and transport session stay.
C15_RepairConnectedNoOp ==
    \A t \in Tasks :
        (/\ Done(t, "repair_client")
         /\ req[t].id \in DOMAIN pre[t]
         /\ pre[t][req[t].id].status = Connected) =>
            /\ clients = pre[t]
            /\ res[t] = Ok(StatusResponse(pre[t][req[t].id]))
            /\ sdk[t] = <<>>

C15_Witness ==
    \E t \in Tasks :
        /\ Done(t, "repair_client")
        /\ req[t].id \in DOMAIN pre[t]
        /\ pre[t][req[t].id].status = Connected
        /\ loc[t].utc_now > pre[t][req[t].id].connected_at[1]
        /\ res[t].ok
        /\ res[t].val.connected_at = pre[t][req[t].id].connected_at

\* C16: repair_client on an identifier whose instance is present and not
\* Connected leaves it Connected with the timestamp the clock shows when the
\* repair runs, keeps its descriptor and transport session and every other
\* entry, returns the new snapshot and calls nothing of the SDK; the
\* forwarding operations then pass the "must be Connected" precondition.
C16_RepairReconnects ==
    \A t \in Tasks :
        (/\ Done(t, "repair_client")
         /\ req[t].id \in DOMAIN pre[t]
         /\ pre[t][req[t].id].status # Connected) =>
            LET id == req[t].id IN
            /\ DOMAIN clients = DOMAIN pre[t]
            /\ \A k \in DOMAIN clients \ {id} : clients[k] = pre[t][k]
            /\ clients[id].status = Connected
            /\ clients[id].connected_at = Some(loc[t].utc_now)
            /\ clients[id].server_info = pre[t][id].server_info
            /\ clients[id].client = pre[t][id].client
            /\ res[t] = Ok(StatusResponse(clients[id]))
            /\ sdk[t] = <<>>
            /\ get_client(clients, id).ok
            /\ forward_entry(clients, [cmd |-> "list_tools", id |-> id]).call # None

C16_Witness ==
    \E t \in Tasks :
        /\ Done(t, "repair_client")
        /\ req[t].id \in DOMAIN pre[t]
        /\ pre[t][req[t].id].status = Disconnected
        /\ pre[t][req[t].id].connected_at = None
        /\ loc[t].utc_now > 0
        /\ clients[req[t].id].connected_at = Some(loc[t].utc_now)

\* C17: disconnect_client, get_client_status and repair_client on an
\* identifier that is not in the registry each fail with the "not found"
\* failure and leave the registry as it was.
C17_AbsentIdNotFound ==
    \A t \in Tasks :
        \A cmd \in {"disconnect_client", "get_client_status", "repair_client"} :
            (Done(t, cmd) /\ req[t].id \notin DOMAIN pre[t]) =>
                /\ res[t] = Err(NotFoundMsg(req[t].id))
                /\ clients = pre[t]

C17_Witness ==
    \E t \in Tasks :
        /\ Done(t, "get_client_status")
        /\ req[t].id \notin DOMAIN pre[t]
        /\ pre[t] # EmptyRegistry
        /\ res[t] = Err(NotFoundMsg(req[t].id))

\* the variants of the SDK's failure that lines 822-867 match by name
RecognizedKinds ==
    { "Transport", "RpcError", "Serialization", "UnexpectedResponse", "NotInitialized",
      "NotReady", "Timeout", "ServerBoxError", "McpServerError" }

\* the remote call of task t was answered with a failure
Failed(t) ==
    /\ pc[t] = "done"
    /\ Len(sdk[t]) = 2
    /\ sdk[t][2].op = "answer"
    /\ ~sdk[t][2].outcome.ok

\* C18: whatever failure the SDK answers call_tool with, call_tool returns a
\* success=false envelope without data and with a non-empty message; a
\* failure of a recognized kind has a rendering no other kind has, and any
\* other failure is rendered as the "unknown error" prefix followed by its
\* default text.
C18_ErrorMappingTotal ==
    \A t \in Tasks :
        (Failed(t) /\ req[t].cmd = "call_tool") =>
            LET e == sdk[t][2].outcome.err IN
            /\ res[t].ok
            /\ res[t].val.success = FALSE
            /\ res[t].val.data = None
            /\ res[t].val.error # None
            /\ Len(res[t].val.error[1]) > 0
            /\ e.kind \in RecognizedKinds =>
                  /\ res[t].val.error[1][1] # "[unknown error]: "
                  /\ \A other \in McpErrors :
                        other.kind # e.kind => error_message(other)[1] # res[t].val.error[1][1]
            /\ e.kind \notin RecognizedKinds =>
                  res[t].val.error[1] = <<"[unknown error]: ">> \o to_string(e)

C18_Witness ==
    \E t \in Tasks :
        /\ Failed(t)
        /\ req[t].cmd = "call_tool"
        /\ sdk[t][2].outcome.err.kind \notin RecognizedKinds
        /\ res[t].ok
        /\ res[t].val.error = Some(<<"[unknown error]: ">> \o to_string(sdk[t][2].outcome.err))

\* C19: a failure of the SDK is rendered with the same message in all six
\* forwarding operations: list_tools, list_resources, read_resource,
\* list_prompts and get_prompt return the message call_tool renders for it.
C19_UniformErrorMapping ==
    \A t \in Tasks :
        (Failed(t) /\ req[t].cmd \in ForwardCmds) =>
            /\ res[t].ok
            /\ res[t].val.error = Some(error_message(sdk[t][2].outcome.err))

\* C20: a forwarding operation whose call had a given outcome returns the
\* response it would return on an instance of the other transport kind.
C20_TransportKindIndependent ==
    \A t \in Tasks :
        (pc[t] = "done" /\ req[t].cmd \in ForwardingCmds /\ Len(sdk[t]) = 2) =>
            \A kind \in {"sse", "stdio"} :
                res[t] = forward_result(req[t].cmd, await_remote(kind, sdk[t][2]))

C20_Witness ==
    \E t \in Tasks :
        /\ Done(t, "call_tool")
        /\ Len(sdk[t]) = 2
        /\ sdk[t][1].kind = "stdio"
        /\ sdk[t][2].op = "elapsed"
        /\ res[t] = forward_result("call_tool", await_remote("sse", sdk[t][2]))

\* task t is inside a handler: it holds the MutexGuard
Inside(t) == pc[t] \notin {"idle", "waiting"}

\* task t is between two assignments of disconnect_client or repair_client
MidMutation(t) == pc[t] \in {"disconnecting", "repairing"}

\* C21: whenever no disconnect or repair is between its assignments, every
\* stored instance has a connected-at timestamp if and only if its status
\* is Connected.
C21_TimestampIffConnected ==
    (\A t \in Tasks : ~MidMutation(t)) =>
        \A id \in DOMAIN clients :
            (clients[id].connected_at # None) <=> (clients[id].status = Connected)

C21_Witness ==
    /\ \A t \in Tasks : ~Inside(t)
    /\ \E id, other \in DOMAIN clients :
          /\ clients[id].status = Connected
          /\ clients[id].connected_at # None
          /\ clients[other].status = Disconnected
          /\ clients[other].connected_at = None

\* C22: get_client_status, get_all_client_statuses and the six forwarding
\* operations leave the registry as they found it, from the moment they
\* start to their return, whether the remote call succeeded, failed or
\* timed out.
C22_ReadsAndForwardsFrame ==
    \A t \in Tasks :
        (/\ Inside(t)
         /\ req[t].cmd \in ForwardingCmds \cup {"get_client_status", "get_all_client_statuses"})
            => clients = pre[t]

C22_Witness ==
    \E t \in Tasks :
        /\ Failed(t)
        /\ req[t].cmd = "read_resource"
        /\ req[t].id \in DOMAIN clients
        /\ clients[req[t].id].status = Connected
        /\ clients[req[t].id].connected_at = pre[t][req[t].id].connected_at

\* C23: register, disconnect, delete and repair on one identifier, at every
\* step and whether they succeed or fail, leave the entry of every other
\* identifier as it was: present or absent, and with the same status,
\* timestamp, descriptor and transport session.
C23_OtherEntriesUntouched ==
    \A t \in Tasks :
        (/\ Inside(t)
         /\ req[t].cmd \in {"initialize_client", "disconnect_client",
                            "delete_client", "repair_client"})
            => \A b \in ClientIds \ {req[t].id} :
                  /\ b \in DOMAIN clients <=> b \in DOMAIN pre[t]
                  /\ b \in DOMAIN pre[t] => clients[b] = pre[t][b]

C23_Witness ==
    \E t \in Tasks :
        /\ Done(t, "delete_client")
        /\ res[t].ok
        /\ req[t].id \notin DOMAIN clients
        /\ clients # EmptyRegistry

\* C24: however register commands for one identifier interleave, a register
\* that finds the identifier stored fails with "already exists" and leaves
\* the registry alone, no two of them are returning success for it at once,
\* and the instance stored under an identifier is never replaced while the
\* identifier stays in the registry.
C24_OneRegistrationPerId ==
    /\ [](\A t \in Tasks :
             (Done(t, "initialize_client") /\ req[t].id \in DOMAIN pre[t]) =>
                 /\ res[t] = Err(AlreadyExistsMsg(req[t].id))
                 /\ clients = pre[t])
    /\ [](\A t, u \in Tasks :
             (/\ t # u
              /\ Done(t, "initialize_client")
              /\ Done(u, "initialize_client")
              /\ req[t].id = req[u].id) => ~(res[t].ok /\ res[u].ok))
    /\ [][\A id \in DOMAIN clients :
             id \in DOMAIN clients' => clients'[id].client = clients[id].client]_vars

C24_Witness ==
    \E t, u \in Tasks :
        /\ Done(t, "initialize_client")
        /\ res[t] = Err(AlreadyExistsMsg(req[t].id))
        /\ pre[t][req[t].id].status = Connected
        /\ pc[u] = "waiting"

\* a snapshot that is no half-applied mutation
Whole(snapshot) ==
    /\ snapshot.status # Connecting
    /\ (snapshot.connected_at # None) <=> (snapshot.status = Connected)

\* C25: handlers never run side by side, so a snapshot returned by
\* get_client_status or get_all_client_statuses is the status, timestamp and
\* descriptor an instance has in the registry at that moment, and is never a
\* half-applied disconnect or repair (Disconnected with a timestamp,
\* Connecting, Connected without a timestamp).
C25_NoTornReads ==
    /\ \A t, u \in Tasks : (t # u) => ~(Inside(t) /\ Inside(u))
    /\ \A t \in Tasks :
          (Done(t, "get_client_status") /\ res[t].ok) =>
              /\ Whole(res[t].val)
              /\ req[t].id \in DOMAIN clients
              /\ res[t].val = StatusResponse(clients[req[t].id])
    /\ \A t \in Tasks :
          (Done(t, "get_all_client_statuses") /\ res[t].ok) =>
              \A i \in DOMAIN res[t].val : Whole(res[t].val[i])

C25_Witness ==
    \E t, u \in Tasks :
        /\ Done(t, "get_client_status")
        /\ res[t].ok
        /\ res[t].val.status = Disconnected
        /\ res[t].val.connected_at = None
        /\ pc[u] = "waiting"

\* C26: from the moment a forwarding operation has resolved the instance of
\* its identifier to the return of its remote call, no other handler runs
\* and the instance is still stored as it was resolved: no disconnect or
\* delete of the identifier takes effect in between.
C26_ForwardNotOverlapped ==
    \A t \in Tasks :
        (/\ req[t].cmd \in ForwardingCmds
         /\ \/ pc[t] = "calling"
            \/ pc[t] = "done" /\ Len(sdk[t]) = 2) =>
            /\ \A u \in Tasks \ {t} : ~Inside(u)
            /\ req[t].id \in DOMAIN clients
            /\ clients[req[t].id] = pre[t][req[t].id]
            /\ clients[req[t].id].status = Connected

C26_Witness ==
    \E t, u \in Tasks :
        /\ pc[t] = "calling"
        /\ req[t].cmd \in ForwardCmds
        /\ pc[u] = "waiting"
        /\ clients[req[t].id].client.session = sdk[t][1].session

\* C27: a command that was issued, and waits for the lock, eventually has
\* its result, even when a forwarding operation of another task never gets
\* an answer from its server.
C27_OthersComplete ==
    \A t \in Tasks : (pc[t] = "waiting") ~> (pc[t] = "done")

\* C28: once call_tool has made its remote call it eventually returns an
\* envelope, whether or not the server ever answers.
C28_CallToolBounded ==
    \A t \in Tasks :
        (pc[t] = "calling" /\ req[t].cmd = "call_tool")
            ~> (pc[t] = "done" /\ req[t].cmd = "call_tool" /\ res[t].ok)

C28_Witness ==
    \E t \in Tasks :
        /\ Done(t, "call_tool")
        /\ Len(sdk[t]) = 2
        /\ sdk[t][2].op = "elapsed"
        /\ res[t].ok
        /\ res[t].val.success = FALSE

\* C29: a forwarding operation does not hold the registry lock while it
\* waits for its remote call.
C29_LockReleasedBeforeCall ==
    \A t \in Tasks : pc[t] = "calling" => lock # t

\* C30: whenever no disconnect or repair is between its assignments, every
\* stored instance is Connected or Disconnected, and every snapshot that
\* get_client_status or get_all_client_statuses returns has one of these two
\* statuses and no error.
C30_ConnectedOrDisconnected ==
    /\ (\A t \in Tasks : ~MidMutation(t)) =>
          \A id \in DOMAIN clients : clients[id].status \in {Connected, Disconnected}
    /\ \A t \in Tasks :
          (Done(t, "get_client_status") /\ res[t].ok) =>
              /\ res[t].val.status \in {Connected, Disconnected}
              /\ res[t].val.error = None
    /\ \A t \in Tasks :
          (Done(t, "get_all_client_statuses") /\ res[t].ok) =>
              \A i \in DOMAIN res[t].val :
                  /\ res[t].val[i].status \in {Connected, Disconnected}
                  /\ res[t].val[i].error = None

C30_Witness ==
    \E t \in Tasks :
        /\ Done(t, "get_client_status")
        /\ res[t].ok
        /\ res[t].val.status = Connected
        /\ res[t].val.error = None
        /\ nextSession > 1

\* C31: repair_client never touches the transport.  For a stored instance
\* that is not Connected it succeeds, calls nothing of the SDK (no start, no
\* handshake, no remote call) and leaves the instance the client it had;
\* every forwarding operation is sent on the session the registry holds for
\* its identifier, a session made by a registration.
C31_RepairKeepsTransport ==
    /\ \A t \in Tasks :
          (req[t].cmd = "repair_client" /\ pc[t] \in {"repairing", "done"}) =>
              /\ sdk[t] = <<>>
              /\ req[t].id \in DOMAIN pre[t] =>
                    clients[req[t].id].client = pre[t][req[t].id].client
    /\ \A t \in Tasks :
          (/\ Done(t, "repair_client")
           /\ req[t].id \in DOMAIN pre[t]
           /\ pre[t][req[t].id].status # Connected) =>
              /\ res[t].ok
              /\ res[t].val.status = Connected
              /\ get_client(clients, req[t].id) = Ok(pre[t][req[t].id].client)
    /\ \A t \in Tasks :
          pc[t] = "calling" =>
              /\ sdk[t][1].session = pre[t][req[t].id].client.session
              /\ sdk[t][1].session = clients[req[t].id].client.session
              /\ sdk[t][1].session \in 1..nextSession

C31_Witness ==
    \E t \in Tasks :
        /\ Done(t, "repair_client")
        /\ req[t].id \in DOMAIN pre[t]
        /\ pre[t][req[t].id].status = Disconnected
        /\ res[t].ok
        /\ sdk[t] = <<>>
        /\ clients[req[t].id].client.session = 1
        /\ nextSession = 2

\* C32: the descriptor of a stored instance is the one its registration
\* captured: no handler changes it while the identifier stays stored, and
\* get_client_status, disconnect_client and repair_client report that same
\* descriptor.
C32_DescriptorImmutable ==
    /\ \A t \in Tasks :
          Inside(t) =>
              \A id \in DOMAIN pre[t] \cap DOMAIN clients :
                  clients[id].server_info = pre[t][id].server_info
    /\ \A t \in Tasks :
          (/\ pc[t] = "done"
           /\ req[t].cmd \in {"get_client_status", "disconnect_client", "repair_client"}
           /\ res[t].ok) =>
              /\ res[t].val.server_info = pre[t][req[t].id].server_info
              /\ res[t].val.server_info # None
    /\ \A t \in Tasks :
          (Done(t, "initialize_client") /\ res[t].ok) =>
              /\ clients[req[t].id].server_info = Some(ServerInfoOf(sdk[t][4].outcome.val))
              /\ res[t].val.server_info = clients[req[t].id].server_info

C32_Witness ==
    \E t \in Tasks :
        /\ Done(t, "disconnect_client")
        /\ res[t].ok
        /\ pre[t][req[t].id].status = Connected
        /\ res[t].val.server_info = pre[t][req[t].id].server_info
        /\ clients[req[t].id].server_info = pre[t][req[t].id].server_info
        /\ res[t].val.server_info # None

\* C33: initialize_client runs its steps in order.  A duplicate identifier
\* is rejected before any transport is started; the handshake is attempted
\* only after the start succeeded; the instance is in the registry only
\* after the handshake succeeded.
C33_RegisterStepOrder ==
    \A t \in Tasks :
        req[t].cmd = "initialize_client" =>
            /\ (pc[t] = "done" /\ req[t].id \in DOMAIN pre[t]) => sdk[t] = <<>>
            /\ Len(sdk[t]) >= 1 => sdk[t][1].op = "start"
            /\ \A i \in DOMAIN sdk[t] :
                  sdk[t][i].op = "initialize" =>
                      /\ i = 3
                      /\ sdk[t][2].op = "answer"
                      /\ sdk[t][2].outcome.ok
            /\ pc[t] \in {"starting", "handshaking"} =>
                  /\ req[t].id \notin DOMAIN clients
                  /\ clients = pre[t]
            /\ (pc[t] = "done" /\ req[t].id \in DOMAIN clients \ DOMAIN pre[t]) =>
                  /\ Len(sdk[t]) = 4
                  /\ sdk[t][4].op = "answer"
                  /\ sdk[t][4].outcome.ok
            /\ (pc[t] = "done" /\ Len(sdk[t]) = 2) =>
                  /\ sdk[t][2].op = "answer"
                  /\ ~sdk[t][2].outcome.ok
                  /\ clients = pre[t]

C33_Witness ==
    \E t \in Tasks :
        /\ Done(t, "initialize_client")
        /\ res[t].ok
        /\ req[t].id \in DOMAIN clients \ DOMAIN pre[t]
        /\ Len(sdk[t]) = 4
        /\ sdk[t][1].op = "start"
        /\ sdk[t][3].op = "initialize"
        /\ sdk[t][4].outcome.ok

\* the calls task t has made of the SDK with operation op
CallsOf(t, op) == { i \in DOMAIN sdk[t] : sdk[t][i].op = op }

\* C34: nothing is retried.  A forwarding invocation makes at most one
\* remote call, a registration at most one transport start and at most one
\* handshake, and a call that failed or ran out of time is the last thing
\* the handler did with the SDK.
C34_NothingRetried ==
    \A t \in Tasks :
        /\ req[t].cmd \in ForwardingCmds =>
              /\ Cardinality(CallsOf(t, req[t].cmd)) <= 1
              /\ \A i \in DOMAIN sdk[t] :
                    sdk[t][i].op \in {req[t].cmd, "answer", "elapsed"}
              /\ Len(sdk[t]) <= 2
        /\ req[t].cmd = "initialize_client" =>
              /\ Cardinality(CallsOf(t, "start")) <= 1
              /\ Cardinality(CallsOf(t, "initialize")) <= 1
              /\ Len(sdk[t]) <= 4
        /\ (pc[t] = "done" /\ SdkFailed(t)) =>
              LET last == sdk[t][Len(sdk[t])] IN
              \/ last.op = "elapsed"
              \/ last.op = "answer" /\ ~last.outcome.ok

C34_Witness ==
    \E t \in Tasks :
        /\ Done(t, "read_resource")
        /\ Len(sdk[t]) = 2
        /\ sdk[t][1].op = "read_resource"
        /\ sdk[t][2].op = "answer"
        /\ ~sdk[t][2].outcome.ok
        /\ res[t].ok
        /\ ~res[t].val.success

\* C35: every identifier has a transport session of its own.  A successful
\* registration stores a session no stored instance had, no two stored
\* instances have the same session, and a forwarding operation on an
\* identifier is sent on the session of that identifier and of no other.
C35_OwnSession ==
    /\ \A a, b \in DOMAIN clients :
          a # b => clients[a].client.session # clients[b].client.session
    /\ \A t \in Tasks :
          (Done(t, "initialize_client") /\ res[t].ok) =>
              /\ clients[req[t].id].client.session = sdk[t][2].outcome.val
              /\ \A k \in DOMAIN pre[t] :
                    pre[t][k].client.session # clients[req[t].id].client.session
    /\ \A t \in Tasks :
          pc[t] = "calling" =>
              /\ sdk[t][1].kind = clients[req[t].id].client.kind
              /\ \A k \in DOMAIN clients :
                    sdk[t][1].session = clients[k].client.session <=> k = req[t].id

C35_Witness ==
    \E t \in Tasks :
        /\ pc[t] = "calling"
        /\ req[t].cmd = "list_tools"
        /\ req[t].id = "b"
        /\ DOMAIN clients = {"a", "b"}
        /\ clients["a"].status = Connected
        /\ sdk[t][1].session = clients["b"].client.session
        /\ sdk[t][1].session # clients["a"].client.session

\* the platform's list separator of PATH
PathSeparator(os) == IF os = "windows" THEN ";" ELSE ":"

RECURSIVE split_paths(_, _)
\* the entries a process reads from a PATH text: the pieces between the
\* separators
split_paths(text, sep) ==
    IF ~contains(text, sep) THEN <<text>>
    ELSE LET i == CHOOSE n \in 1..Len(text) :
                     text[n] = sep /\ \A m \in 1..(n - 1) : text[m] # sep
         IN <<SubSeq(text, 1, i - 1)>> \o split_paths(SubSeq(text, i + 1, Len(text)), sep)

\* task t has built the Stdio transport of its registration and awaits its start
StartingStdio(t) ==
    /\ pc[t] = "starting"
    /\ req[t].cmd = "initialize_client"
    /\ sdk[t][1].kind = "stdio"

\* C36: the environment of the subprocess has a PATH whenever the process
\* inherited one; when the caller sent a PATH, the entries of the result are
\* the caller's entries followed by the inherited entries, none dropped;
\* otherwise the result is the inherited value; every other variable of the
\* caller is passed unchanged.
C36_PathMerged ==
    \A t \in Tasks :
        StartingStdio(t) =>
            LET sys == loc[t].sys
                sep == PathSeparator(sys.os)
                caller == unwrap_or_default(req[t].headers, <<>>)
                env == sdk[t][1].env
            IN /\ sys.path # None => "PATH" \in DOMAIN env
               /\ (sys.path # None /\ "PATH" \in DOMAIN caller) =>
                     split_paths(env["PATH"], sep)
                       = split_paths(caller["PATH"], sep) \o split_paths(sys.path[1], sep)
               /\ (sys.path # None /\ "PATH" \notin DOMAIN caller) =>
                     env["PATH"] = sys.path[1]
               /\ \A k \in DOMAIN caller \ {"PATH"} :
                     k \in DOMAIN env /\ env[k] = caller[k]

\* C37: on Windows the bare name is probed first, then the .cmd form, then
\* the .exe form.  When a probe located a script, the transport runs cmd.exe
\* with /c, the command and the original arguments in order; when it located
\* a native executable and no script, the transport runs it with the
\* original arguments; when no probe found anything, and on every other
\* platform, it runs the original command and arguments.
C37_CommandResolution ==
    \A t \in Tasks :
        StartingStdio(t) =>
            LET sys == loc[t].sys
                command == req[t].command[1]
                args == unwrap_or_default(req[t].args, <<>>)
                found(x) == sys.where_output[x].spawned /\ sys.where_output[x].success
                script(x) == \E i \in 1..Len(sys.where_output[x].stdout) :
                                 sys.where_output[x].stdout[i] = ".cmd"
                launched == <<sdk[t][1].command, sdk[t][1].args>>
            IN /\ sys.os # "windows" => launched = <<command, args>>
               /\ sys.os = "windows" =>
                    /\ (found(command) /\ script(command)) =>
                          launched = <<"cmd.exe", <<"/c", command>> \o args>>
                    /\ (found(command) /\ ~script(command)) =>
                          launched = <<command, args>>
                    /\ (~found(command) /\ found(command \o ".cmd")) =>
                          launched = <<"cmd.exe", <<"/c", command \o ".cmd">> \o args>>
                    /\ (~found(command) /\ ~found(command \o ".cmd")
                          /\ found(command \o ".exe")) =>
                          launched = <<command \o ".exe", args>>
                    /\ (~found(command) /\ ~found(command \o ".cmd")
                          /\ ~found(command \o ".exe")) =>
                          launched = <<command, args>>

C37_Witness ==
    \E t \in Tasks :
        /\ StartingStdio(t)
        /\ loc[t].sys.os = "windows"
        /\ ~loc[t].sys.where_output["npx"].success
        /\ loc[t].sys.where_output["npx.cmd"].success
        /\ loc[t].sys.where_output["npx.exe"].success
        /\ sdk[t][1].command = "cmd.exe"
        /\ sdk[t][1].args = <<"/c", "npx.cmd", "-y", "srv">>

\* C38: call_tool resolves the client before it looks at the tool name.
\* With an empty tool name, an identifier that is absent or not Connected
\* gets the hard "not found" or "not connected" failure and no envelope; the
\* success=false envelope of the empty name is returned for a Connected
\* client only.  Nothing is sent in either case.
C38_ClientBeforeToolName ==
    \A t \in Tasks :
        (Done(t, "call_tool") /\ req[t].tool_name = "") =>
            LET id == req[t].id IN
            /\ sdk[t] = <<>>
            /\ id \notin DOMAIN pre[t] =>
                  res[t] = Err(GetClientFailedPrefix \o NotFoundMsg(id))
            /\ (id \in DOMAIN pre[t] /\ pre[t][id].status # Connected) =>
                  res[t] = Err(GetClientFailedPrefix \o NotConnectedMsg(id))
            /\ res[t].ok =>
                  /\ id \in DOMAIN pre[t]
                  /\ pre[t][id].status = Connected
                  /\ res[t] = Ok(FailureResponse(EmptyToolNameMsg))

C38_Witness ==
    \E t \in Tasks :
        /\ Done(t, "call_tool")
        /\ req[t].tool_name = ""
        /\ req[t].id \in DOMAIN pre[t]
        /\ pre[t][req[t].id].status = Disconnected
        /\ res[t] = Err(GetClientFailedPrefix \o NotConnectedMsg(req[t].id))

\* C39: delete_client succeeds for a stored identifier whatever its status
\* and removes that entry and no other; in the registry it leaves, a
\* registration of the identifier is not a duplicate and goes on to start
\* its transport.  A registration of an identifier that is stored and
\* Disconnected fails with the "already exists" failure.
C39_DeleteThenRegister ==
    /\ \A t \in Tasks :
          (Done(t, "delete_client") /\ req[t].id \in DOMAIN pre[t]) =>
              /\ res[t] = Ok(<<>>)
              /\ DOMAIN clients = DOMAIN pre[t] \ {req[t].id}
              /\ \A k \in DOMAIN clients : clients[k] = pre[t][k]
              /\ \A r \in InitializeRequests :
                    r.id = req[t].id =>
                        /\ ~DuplicateId(clients, r)
                        /\ MissingTarget(r) = None =>
                              initialize_client_entry(clients, r, HostSystem).ok
    /\ \A t \in Tasks :
          (/\ Done(t, "initialize_client")
           /\ req[t].id \in DOMAIN pre[t]
           /\ pre[t][req[t].id].status = Disconnected) =>
              /\ res[t] = Err(AlreadyExistsMsg(req[t].id))
              /\ sdk[t] = <<>>
    /\ \A t \in Tasks :
          (Done(t, "initialize_client") /\ res[t].ok) => req[t].id \notin DOMAIN pre[t]

C39_Witness ==
    \E t \in Tasks :
        /\ Done(t, "delete_client")
        /\ req[t].id \in DOMAIN pre[t]
        /\ pre[t][req[t].id].status = Connected
        /\ res[t].ok
        /\ req[t].id \notin DOMAIN clients
        /\ nextSession = 2

\* C40: the command layer cannot deadlock.  A command takes the manager
\* lock once, when it is free, holds it for as long as its handler runs and
\* gives it back when it returns, whatever it returns; when every transport
\* start, handshake and remote call returns and the lock is granted fairly,
\* every command that was invoked completes.
C40_CommandsComplete ==
    /\ [](\A t \in Tasks : Inside(t) <=> lock = t)
    /\ [][\A t \in Tasks :
             /\ (lock' = t /\ lock # t) => (pc[t] = "waiting" /\ lock = NoTask)
             /\ (pc[t] = "done" /\ pc'[t] # "done") => (lock = t /\ lock' = NoTask)]_vars
    /\ \A t \in Tasks : pc[t] = "waiting" ~> pc[t] = "done"

C40_Witness ==
    \E t, u \in Tasks :
        /\ pc[t] = "done"
        /\ req[t].cmd = "call_tool"
        /\ Len(sdk[t]) = 2
        /\ sdk[t][2].op = "elapsed"
        /\ lock = t
        /\ pc[u] = "waiting"

=============================================================================
